---- MODULE Spec2Model ----
(***************************************************************************)
(* Model of the qwuack ledger (class Ledger, running totals kept next to   *)
(* the entries of one (account, currency) pair in a Redis-like store).     *)
(*                                                                         *)
(* The store executes one command, or one MULTI/EXEC group, at a time.     *)
(* Every `await` of a Ledger method is a point where the commands of       *)
(* other callers may be executed, so every store command of a method is    *)
(* one action of the model.                                                *)
(***************************************************************************)
EXTENDS Integers, Sequences, FiniteSets, TLC

(***************************************************************************)
(* Bounds of the model.                                                    *)
(***************************************************************************)
NProcs == 2        \* concurrent callers
MaxCalls == 3      \* calls begun in one behaviour
TestLimit == 1     \* the small maxEntriesPerKey a Ledger may be built with
MaxCount == 2      \* the largest page size asked of a scan, the default aside
FloodOps == 3      \* targetOps of a flood
MaxPermits == 2    \* the largest concurrency of a flood

Procs == 1..NProcs

\* one more id than the small limit, so that a fresh id exists at the limit
Ids == 1..(TestLimit + 1)
Contexts == {"deposit", "withdrawal"}

\* account and currency strings, as their ":"-separated segments
Accounts == {<<"u1">>}
Currencies == {<<"usd">>}

(***************************************************************************)
(* Decimal strings.  A decimal string is the number it denotes, counted in *)
(* hundredths (v), together with the number of digits written after the    *)
(* point (d): "100.00" is [v |-> 10000, d |-> 2], "70" is [v |-> 7000,     *)
(* d |-> 0].  The amounts used are multiples of 0.25, which binary         *)
(* floating point adds and subtracts exactly.                              *)
(***************************************************************************)
DecStr(v, d) == [v |-> v, d |-> d]

Amounts == {DecStr(10000, 2), DecStr(-3000, 2)}

\* a JS number is modelled by its value in hundredths
parseFloat(s) == s.v

\* the store prints a float with the fewest decimals that denote it
MinDecimals(v) == IF v % 100 = 0 THEN 0 ELSE IF v % 10 = 0 THEN 1 ELSE 2
FormatFloat(v) == DecStr(v, MinDecimals(v))

(***************************************************************************)
(* Optional values: a null reply is the empty sequence.                    *)
(***************************************************************************)
Null == << >>
Some(x) == <<x>>
IsNull(o) == o = << >>
Get1(o) == o[1]

(***************************************************************************)
(* LedgerEntry and its serialization.                                      *)
(***************************************************************************)
LedgerEntry(id, context, currency, amount) ==
    [id |-> id, context |-> context, currency |-> currency, amount |-> amount]

Entries(c) == {LedgerEntry(i, x, c, a) : i \in Ids, x \in Contexts, a \in Amounts}

JSONstringify(e) ==
    <<"id", e.id, "context", e.context, "currency", e.currency, "amount", e.amount>>

JSONparse(raw) == LedgerEntry(raw[2], raw[4], raw[6], raw[8])

\* a value that is not JSON text, as a client other than the Ledger may store;
\* JSON.parse throws a SyntaxError on it
Malformed == <<"not json">>
JSONparseThrows(raw) == raw = Malformed

(***************************************************************************)
(* Configuration.                                                          *)
(***************************************************************************)
DEFAULT_CONFIG == [maxEntriesPerKey |-> 1000000, keyPrefix |-> <<"ledger">>]

\* the config argument of the constructor; Null is a field left out
ConfigInputs == {[maxEntriesPerKey |-> m, keyPrefix |-> Null] : m \in {Null, Some(TestLimit)}}

\* a faulty variant, which the properties must tell from the code's: the
\* prefix supplied is used only when a limit is supplied too
LedgerConstructor_coupled(cfg) ==
    [maxEntriesPerKey |-> IF IsNull(cfg.maxEntriesPerKey)
                          THEN DEFAULT_CONFIG.maxEntriesPerKey
                          ELSE Get1(cfg.maxEntriesPerKey),
     keyPrefix |-> IF IsNull(cfg.keyPrefix) \/ IsNull(cfg.maxEntriesPerKey)
                   THEN DEFAULT_CONFIG.keyPrefix
                   ELSE Get1(cfg.keyPrefix)]

LedgerConstructor(cfg) ==
    [maxEntriesPerKey |-> IF IsNull(cfg.maxEntriesPerKey)
                          THEN DEFAULT_CONFIG.maxEntriesPerKey
                          ELSE Get1(cfg.maxEntriesPerKey),
     keyPrefix |-> IF IsNull(cfg.keyPrefix)
                   THEN DEFAULT_CONFIG.keyPrefix
                   ELSE Get1(cfg.keyPrefix)]

(***************************************************************************)
(* The two client shapes.  An ioredis client has a string `status`; a      *)
(* node-redis client has none.                                             *)
(***************************************************************************)
NodeRedisClient == [status |-> Null]
IORedisClient == [status |-> Some("ready")]

\* `typeof client.status === "string"`
createRedisAdapter(client) == IF ~IsNull(client.status) THEN "ioredis" ELSE "node-redis"

VARIABLES
    adapter,    \* Ledger.adapter: which client shape the store is reached through
    config,     \* Ledger.config
    hashes,     \* the store's hash keys: key -> (field -> value)
    strings,    \* the store's string keys: key -> value
    pc,         \* per caller: the store command its call issues next
    op,         \* per caller: the call and its arguments
    loc,        \* per caller: the replies its call has kept
    ret,        \* per caller: the outcome of its last completed call
    nexec,      \* per caller: grouped writes its call has issued
    calls       \* per caller: calls begun so far

\* the scan-based ledger (ledger.ts), to which a test applies the calls it
\* has made on the Ledger, and what the test has noted
VARIABLES
    redis,      \* ledger.ts `redis`: the hash keys of the store it talks to
    scanRet,    \* what the scan-based function returned for the last call applied
    applied,    \* the number of the caller's calls applied to the scan-based ledger
    refused,    \* an addEntry of the Ledger has been refused with LimitExceeded
    before      \* the Ledger's store as the test last noted it, and after which call

scanVars == <<redis, scanRet, applied, refused, before>>

\* runFlood (flood.ts)
VARIABLES
    floodConfig,    \* `config`: the FloodConfig runFlood was called with, or Null
    permits,        \* Semaphore.permits
    waiting,        \* Semaphore.waiting: the operations whose acquire() is pending
    operations,     \* `operations`: per operation fired, where it stands
    successCount,   \* `successCount`
    failureCount,   \* `failureCount`
    floodResult     \* the FloodResult returned, or Null

floodVars == <<floodConfig, permits, waiting, operations, successCount, failureCount,
               floodResult>>

vars == <<adapter, config, hashes, strings, pc, op, loc, ret, nexec, calls,
          scanVars, floodVars>>

(***************************************************************************)
(* Key helpers.                                                            *)
(***************************************************************************)
getLedgerKey(accountId, currency) == config.keyPrefix \o accountId \o currency
\* (a faulty variant of the next, which the properties must tell from the code's)
getTotalKey_sum(accountId, currency) == config.keyPrefix \o accountId \o currency \o <<"sum">>
getTotalKey(accountId, currency) == config.keyPrefix \o accountId \o currency \o <<"total">>
getContextKey(accountId, currency) == config.keyPrefix \o accountId \o currency \o <<"ctx">>

(***************************************************************************)
(* Store commands, as functions of the store's content.  A hash key with   *)
(* no field does not exist.                                                *)
(***************************************************************************)
Restrict(f, S) == [x \in S |-> f[x]]

HGetAll(hs, k) == IF k \in DOMAIN hs THEN hs[k] ELSE << >>
HExists(hs, k, f) == k \in DOMAIN hs /\ f \in DOMAIN hs[k]
HGet(hs, k, f) == IF HExists(hs, k, f) THEN Some(hs[k][f]) ELSE Null
HLen(hs, k) == Cardinality(DOMAIN HGetAll(hs, k))

HSet(hs, k, f, v) ==
    LET old == HGetAll(hs, k)
        new == [x \in DOMAIN old \cup {f} |-> IF x = f THEN v ELSE old[x]]
    IN  [x \in DOMAIN hs \cup {k} |-> IF x = k THEN new ELSE hs[x]]

HDel(hs, k, f) ==
    LET old == HGetAll(hs, k)
        new == Restrict(old, DOMAIN old \ {f})
    IN  IF DOMAIN new = {}
        THEN Restrict(hs, DOMAIN hs \ {k})
        ELSE [hs EXCEPT ![k] = new]

HIncrByFloat(hs, k, f, increment) ==
    LET old == IF HExists(hs, k, f) THEN parseFloat(hs[k][f]) ELSE 0
    IN  HSet(hs, k, f, FormatFloat(old + increment))

StrGet(ss, k) == IF k \in DOMAIN ss THEN Some(ss[k]) ELSE Null

IncrByFloat(ss, k, increment) ==
    LET old == IF k \in DOMAIN ss THEN parseFloat(ss[k]) ELSE 0
    IN  [x \in DOMAIN ss \cup {k} |-> IF x = k THEN FormatFloat(old + increment) ELSE ss[x]]

Del(m, keys) == Restrict(m, DOMAIN m \ keys)

\* DEL's reply: the number of keys that were removed
DelReply(hs, ss, keys) == Cardinality(keys \cap (DOMAIN hs \cup DOMAIN ss))

\* HSCAN.  The store walks the fields of a hash in a fixed order (here: by
\* ascending field); a cursor is the decimal numeral of the number of fields
\* already walked, and "0" both starts a scan and reports its end.
RECURSIVE ScanOrder(_)
ScanOrder(S) ==
    IF S = {} THEN << >>
    ELSE LET m == CHOOSE x \in S : \A y \in S : x <= y
         IN  <<m>> \o ScanOrder(S \ {m})

Cursors == {ToString(n) : n \in 0..Cardinality(Ids)}
CursorPos(cursor) == CHOOSE n \in 0..Cardinality(Ids) : ToString(n) = cursor

HScan(hs, k, cursor, count) ==
    LET h == HGetAll(hs, k)
        fs == ScanOrder(DOMAIN h)
        from == CursorPos(cursor)
        to == IF from + count < Len(fs) THEN from + count ELSE Len(fs)
        n == IF to > from THEN to - from ELSE 0
    IN  [cursor |-> IF to < Len(fs) THEN ToString(to) ELSE "0",
         entries |-> [i \in 1..n |->
                        [field |-> fs[from + i], value |-> h[fs[from + i]]]]]

(***************************************************************************)
(* The adapters.  The replies of the two client shapes differ for HEXISTS  *)
(* (ioredis: 1 or 0) and HSCAN (ioredis: the cursor and a flat list        *)
(* f1, v1, f2, v2, ...); the ioredis adapter converts them.  Every other   *)
(* adapter method hands the arguments and the reply through unchanged.     *)
(***************************************************************************)
node_hExists(hs, k, f) == HExists(hs, k, f)
ioredis_hexists(hs, k, f) == IF HExists(hs, k, f) THEN 1 ELSE 0

node_hScan(hs, k, cursor, count) == HScan(hs, k, cursor, count)

Flat(items) ==
    [i \in 1..(2 * Len(items)) |->
        IF i % 2 = 1 THEN items[(i + 1) \div 2].field ELSE items[i \div 2].value]

ioredis_hscan(hs, k, cursor, count) ==
    LET scan == HScan(hs, k, cursor, count) IN <<scan.cursor, Flat(scan.entries)>>

\* a faulty variant, which the properties must tell from the code's: the
\* ioredis reply compared with 0
adapter_hExists_zero(a, hs, k, f) ==
    IF a = "ioredis" THEN ioredis_hexists(hs, k, f) = 0 ELSE node_hExists(hs, k, f)

\* `(await client.hexists(key, field)) === 1`
adapter_hExists(a, hs, k, f) ==
    IF a = "ioredis" THEN ioredis_hexists(hs, k, f) = 1 ELSE node_hExists(hs, k, f)

\* `for (i = 0; i < items.length; i += 2) entries.push({field: items[i], value: items[i + 1]})`
adapter_hScan(a, hs, k, cursor, count) ==
    IF a = "ioredis"
    THEN LET reply == ioredis_hscan(hs, k, cursor, count)
             items == reply[2]
         IN  [cursor |-> reply[1],
              entries |-> [j \in 1..(Len(items) \div 2) |->
                             [field |-> items[2 * j - 1], value |-> items[2 * j]]]]
    ELSE node_hScan(hs, k, cursor, count)

(***************************************************************************)
(* Outcomes of a call.                                                     *)
(***************************************************************************)
NoRet == [kind |-> "none"]
RetVoid == [kind |-> "void"]
RetError(e) == [kind |-> "error", error |-> e]
RetBool(b) == [kind |-> "bool", val |-> b]
RetSum(s) == [kind |-> "sum", val |-> s]
RetBalance(t, b, n) == [kind |-> "balance", total |-> t, byContext |-> b, entryCount |-> n]
RetEntry(e) == [kind |-> "entry", val |-> e]
RetPage(es, c, m) == [kind |-> "page", entries |-> es, nextCursor |-> c, hasMore |-> m]
RetPages(es) == [kind |-> "pages", entries |-> es]
RetConfig(c) == [kind |-> "config", val |-> c]

NoOp == [name |-> "none"]
NoLoc == << >>

\* the scan-based ledger on an empty store, nothing applied or noted yet
NoSnapshot == [hashes |-> << >>, strings |-> << >>, calls |-> -1]

ScanInit ==
    /\ redis = << >>
    /\ scanRet = NoRet
    /\ applied = 0
    /\ refused = FALSE
    /\ before = NoSnapshot

\* runFlood has not been called
NoFlood ==
    /\ floodConfig = Null
    /\ permits = 0
    /\ waiting = << >>
    /\ operations = << >>
    /\ successCount = 0
    /\ failureCount = 0
    /\ floodResult = Null

\* the state after `new Ledger(client, cfg)` for some client of clients and
\* some cfg of cfgs, on an empty store
LedgerInit(cfgs, clients) ==
    /\ \E client \in clients : adapter = createRedisAdapter(client)
    /\ \E cfg \in cfgs : config = LedgerConstructor(cfg)
    /\ hashes = << >>
    /\ strings = << >>
    /\ pc = [p \in Procs |-> "idle"]
    /\ op = [p \in Procs |-> NoOp]
    /\ loc = [p \in Procs |-> NoLoc]
    /\ ret = [p \in Procs |-> NoRet]
    /\ nexec = [p \in Procs |-> 0]
    /\ calls = [p \in Procs |-> 0]

\* the same, with the scan-based ledger empty and no flood running
InitOn(cfgs, clients) ==
    /\ LedgerInit(cfgs, clients)
    /\ ScanInit
    /\ NoFlood

\* the same with a node-redis client
InitWith(cfgs) == InitOn(cfgs, {NodeRedisClient})

Init == InitWith(ConfigInputs)

\* calls begun so far by all callers
RECURSIVE SumCalls(_, _)
SumCalls(n, P) ==
    IF P = {} THEN 0
    ELSE LET p == CHOOSE x \in P : TRUE IN n[p] + SumCalls(n, P \ {p})

TotalCalls == SumCalls(calls, Procs)

\* a caller between two calls
Free(p) == pc[p] \in {"idle", "done"}
Quiescent == \A p \in Procs : Free(p)

\* caller p begins call o; its first store command is executed in the same step
Begin(p, o) ==
    /\ Free(p)
    /\ TotalCalls < MaxCalls
    /\ calls' = [calls EXCEPT ![p] = @ + 1]
    /\ op' = [op EXCEPT ![p] = o]

\* caller p's call ends with outcome r; l are the values of its locals
Finish(p, r, l) ==
    /\ pc' = [pc EXCEPT ![p] = "done"]
    /\ ret' = [ret EXCEPT ![p] = r]
    /\ loc' = [loc EXCEPT ![p] = l]

\* caller p's call goes on to command next; l are the values of its locals
Goto(p, next, l) ==
    /\ pc' = [pc EXCEPT ![p] = next]
    /\ ret' = [ret EXCEPT ![p] = NoRet]
    /\ loc' = [loc EXCEPT ![p] = l]

(***************************************************************************)
(* addEntry: hExists, hLen, then one grouped write.                        *)
(***************************************************************************)
\* faulty variants of the pre-checks, which the properties must tell from the
\* code's: the duplicate check left out; the limit compared with >
addEntry_duplicate_never(exists) == ""
addEntry_limit_offByOne(count, maxEntriesPerKey) ==
    IF count > maxEntriesPerKey THEN "LimitExceeded" ELSE ""

\* (one more: an add is refused when it would fill the pair)
addEntry_limit_oneBelow(count, maxEntriesPerKey) ==
    IF count + 1 >= maxEntriesPerKey THEN "LimitExceeded" ELSE ""

\* the pre-checks: the error thrown, or "" to go on
addEntry_duplicate(exists) == IF exists THEN "DuplicateEntry" ELSE ""
addEntry_limit(count, maxEntriesPerKey) ==
    IF count >= maxEntriesPerKey THEN "LimitExceeded" ELSE ""

\* faulty variant of the grouped write: the total is set from the amount, not
\* incremented
addEntry_multi_setTotal(hs, ss, key, totalKey, ctxKey, entry) ==
    [hashes |-> HIncrByFloat(HSet(hs, key, entry.id, JSONstringify(entry)),
                             ctxKey, entry.context, parseFloat(entry.amount)),
     strings |-> [x \in DOMAIN ss \cup {totalKey} |->
                    IF x = totalKey THEN FormatFloat(parseFloat(entry.amount)) ELSE ss[x]]]

\* the grouped write: hSet, incrByFloat, hIncrByFloat, executed together
\* (another: the entry is stored and neither sum is incremented)
addEntry_multi_entryOnly(hs, ss, key, totalKey, ctxKey, entry) ==
    [hashes |-> HSet(hs, key, entry.id, JSONstringify(entry)), strings |-> ss]

\* (and one more: the sums are incremented and the entry is not stored)
addEntry_multi_sumsOnly(hs, ss, key, totalKey, ctxKey, entry) ==
    [hashes |-> HIncrByFloat(hs, ctxKey, entry.context, parseFloat(entry.amount)),
     strings |-> IncrByFloat(ss, totalKey, parseFloat(entry.amount))]

addEntry_multi(hs, ss, key, totalKey, ctxKey, entry) ==
    [hashes |-> HIncrByFloat(HSet(hs, key, entry.id, JSONstringify(entry)),
                             ctxKey, entry.context, parseFloat(entry.amount)),
     strings |-> IncrByFloat(ss, totalKey, parseFloat(entry.amount))]

\* a faulty variant, which the properties must tell from the code's: the
\* grouped write is issued before the pre-checks as well
addEntry_hExists_writeFirst(p, accountId, currency, entry) ==
    LET w == addEntry_multi(hashes, strings, getLedgerKey(accountId, currency),
                            getTotalKey(accountId, currency),
                            getContextKey(accountId, currency), entry)
    IN  /\ Begin(p, [name |-> "addEntry", accountId |-> accountId,
                     currency |-> currency, entry |-> entry])
        /\ nexec' = [nexec EXCEPT ![p] = 1]
        /\ hashes' = w.hashes
        /\ strings' = w.strings
        /\ Goto(p, "addEntry_hLen", [exists |-> FALSE])
        /\ UNCHANGED <<scanVars, floodVars, adapter, config>>

\* (another: the count is read and compared with the limit first)
addEntry_hExists_limitFirst(p, accountId, currency, entry) ==
    LET exists == adapter_hExists(adapter, hashes, getLedgerKey(accountId, currency), entry.id)
        count == HLen(hashes, getLedgerKey(accountId, currency))
    IN  /\ Begin(p, [name |-> "addEntry", accountId |-> accountId,
                     currency |-> currency, entry |-> entry])
        /\ nexec' = [nexec EXCEPT ![p] = 0]
        /\ IF addEntry_limit(count, config.maxEntriesPerKey) # ""
           THEN Finish(p, RetError("LimitExceeded"), [exists |-> exists])
           ELSE IF addEntry_duplicate(exists) # ""
           THEN Finish(p, RetError(addEntry_duplicate(exists)), [exists |-> exists])
           ELSE Goto(p, "addEntry_hLen", [exists |-> exists])
        /\ UNCHANGED <<scanVars, floodVars, adapter, config, hashes, strings>>

addEntry_hExists(p, accountId, currency, entry) ==
    LET exists == adapter_hExists(adapter, hashes, getLedgerKey(accountId, currency), entry.id)
    IN  /\ Begin(p, [name |-> "addEntry", accountId |-> accountId,
                     currency |-> currency, entry |-> entry])
        /\ nexec' = [nexec EXCEPT ![p] = 0]
        /\ IF addEntry_duplicate(exists) # ""
           THEN Finish(p, RetError(addEntry_duplicate(exists)), [exists |-> exists])
           ELSE Goto(p, "addEntry_hLen", [exists |-> exists])
        /\ UNCHANGED <<scanVars, floodVars, adapter, config, hashes, strings>>

addEntry_hLen(p) ==
    LET count == HLen(hashes, getLedgerKey(op[p].accountId, op[p].currency))
        l == [exists |-> loc[p].exists, count |-> count]
    IN  /\ pc[p] = "addEntry_hLen"
        /\ IF addEntry_limit(count, config.maxEntriesPerKey) # ""
           THEN Finish(p, RetError(addEntry_limit(count, config.maxEntriesPerKey)), l)
           ELSE Goto(p, "addEntry_exec", l)
        /\ UNCHANGED <<scanVars, floodVars, adapter, config, hashes, strings, op, nexec, calls>>

addEntry_exec(p) ==
    LET w == addEntry_multi(hashes, strings,
                            getLedgerKey(op[p].accountId, op[p].currency),
                            getTotalKey(op[p].accountId, op[p].currency),
                            getContextKey(op[p].accountId, op[p].currency),
                            op[p].entry)
    IN  /\ pc[p] = "addEntry_exec"
        /\ hashes' = w.hashes
        /\ strings' = w.strings
        /\ nexec' = [nexec EXCEPT ![p] = @ + 1]
        /\ Finish(p, RetVoid, loc[p])
        /\ UNCHANGED <<scanVars, floodVars, adapter, config, op, calls>>

(***************************************************************************)
(* removeEntry: hGet, then one grouped write.                              *)
(***************************************************************************)
\* faulty variants of the grouped write: the context sum is not decremented; the
\* field is not deleted
removeEntry_multi_noCtx(hs, ss, key, totalKey, ctxKey, entryId, entry) ==
    [hashes |-> HDel(hs, key, entryId),
     strings |-> IncrByFloat(ss, totalKey, -parseFloat(entry.amount))]

removeEntry_multi_noDel(hs, ss, key, totalKey, ctxKey, entryId, entry) ==
    [hashes |-> HIncrByFloat(hs, ctxKey, entry.context, -parseFloat(entry.amount)),
     strings |-> IncrByFloat(ss, totalKey, -parseFloat(entry.amount))]

\* the grouped write: hDel, incrByFloat, hIncrByFloat, executed together
\* (two more: the total is left as it was; a context sum that reaches zero
\* is deleted)
removeEntry_multi_noTotal(hs, ss, key, totalKey, ctxKey, entryId, entry) ==
    [hashes |-> HIncrByFloat(HDel(hs, key, entryId),
                             ctxKey, entry.context, -parseFloat(entry.amount)),
     strings |-> ss]
removeEntry_multi_dropZero(hs, ss, key, totalKey, ctxKey, entryId, entry) ==
    LET h == HIncrByFloat(HDel(hs, key, entryId),
                          ctxKey, entry.context, -parseFloat(entry.amount))
    IN  [hashes |-> IF parseFloat(h[ctxKey][entry.context]) = 0
                    THEN HDel(h, ctxKey, entry.context) ELSE h,
         strings |-> IncrByFloat(ss, totalKey, -parseFloat(entry.amount))]

\* (and one more: the amount is added to the total again)
removeEntry_multi_plus(hs, ss, key, totalKey, ctxKey, entryId, entry) ==
    [hashes |-> HIncrByFloat(HDel(hs, key, entryId),
                             ctxKey, entry.context, -parseFloat(entry.amount)),
     strings |-> IncrByFloat(ss, totalKey, parseFloat(entry.amount))]

removeEntry_multi(hs, ss, key, totalKey, ctxKey, entryId, entry) ==
    [hashes |-> HIncrByFloat(HDel(hs, key, entryId),
                             ctxKey, entry.context, -parseFloat(entry.amount)),
     strings |-> IncrByFloat(ss, totalKey, -parseFloat(entry.amount))]

\* `if (!raw) return false`
removeEntry_absent(raw) == IsNull(raw)

removeEntry_hGet(p, accountId, currency, entryId) ==
    LET raw == HGet(hashes, getLedgerKey(accountId, currency), entryId)
    IN  /\ Begin(p, [name |-> "removeEntry", accountId |-> accountId,
                     currency |-> currency, entryId |-> entryId])
        /\ nexec' = [nexec EXCEPT ![p] = 0]
        /\ IF removeEntry_absent(raw)
           THEN Finish(p, RetBool(FALSE), [raw |-> raw])
           ELSE IF JSONparseThrows(Get1(raw))
           THEN Finish(p, RetError("SyntaxError"), [raw |-> raw])
           ELSE Goto(p, "removeEntry_exec", [raw |-> raw])
        /\ UNCHANGED <<scanVars, floodVars, adapter, config, hashes, strings>>

removeEntry_exec(p) ==
    LET w == removeEntry_multi(hashes, strings,
                               getLedgerKey(op[p].accountId, op[p].currency),
                               getTotalKey(op[p].accountId, op[p].currency),
                               getContextKey(op[p].accountId, op[p].currency),
                               op[p].entryId, JSONparse(Get1(loc[p].raw)))
    IN  /\ pc[p] = "removeEntry_exec"
        /\ hashes' = w.hashes
        /\ strings' = w.strings
        /\ nexec' = [nexec EXCEPT ![p] = @ + 1]
        /\ Finish(p, RetBool(TRUE), loc[p])
        /\ UNCHANGED <<scanVars, floodVars, adapter, config, op, calls>>

(***************************************************************************)
(* getSum: one read of the total key.                                      *)
(***************************************************************************)
\* a faulty variant, which the properties must tell from the code's: an absent
\* total reads "0.00"
OrZero_twoDecimals(total) == IF IsNull(total) THEN DecStr(0, 2) ELSE Get1(total)

\* `total ?? "0"`
OrZero(total) == IF IsNull(total) THEN DecStr(0, 0) ELSE Get1(total)

\* what getSum returns when the store holds ss
getSumReply(ss, accountId, currency) == OrZero(StrGet(ss, getTotalKey(accountId, currency)))

\* a faulty variant, which the properties must tell from the code's: an
\* absent total is written as "0"
getSum_init(p, accountId, currency) ==
    /\ Begin(p, [name |-> "getSum", accountId |-> accountId, currency |-> currency])
    /\ nexec' = [nexec EXCEPT ![p] = 0]
    /\ Finish(p, RetSum(getSumReply(strings, accountId, currency)), NoLoc)
    /\ strings' = IncrByFloat(strings, getTotalKey(accountId, currency), 0)
    /\ UNCHANGED <<scanVars, floodVars, adapter, config, hashes>>

getSum(p, accountId, currency) ==
    /\ Begin(p, [name |-> "getSum", accountId |-> accountId, currency |-> currency])
    /\ nexec' = [nexec EXCEPT ![p] = 0]
    /\ Finish(p, RetSum(getSumReply(strings, accountId, currency)), NoLoc)
    /\ UNCHANGED <<scanVars, floodVars, adapter, config, hashes, strings>>

(***************************************************************************)
(* getBalance: three reads issued together, executed one after another.    *)
(***************************************************************************)
\* the BalanceResult built from the three replies (before it a faulty
\* variant, which the properties must tell from the code's: the contexts are
\* counted, not the entries)
getBalanceResult_countContexts(total, entryCount, byContext) ==
    RetBalance(OrZero(total), byContext, Cardinality(DOMAIN byContext))

getBalanceResult(total, entryCount, byContext) ==
    RetBalance(OrZero(total), byContext, entryCount)

\* what getBalance returns when no command of another caller comes between its reads
getBalanceReply(hs, ss, accountId, currency) ==
    getBalanceResult(StrGet(ss, getTotalKey(accountId, currency)),
                     HLen(hs, getLedgerKey(accountId, currency)),
                     HGetAll(hs, getContextKey(accountId, currency)))

getBalance_get(p, accountId, currency) ==
    /\ Begin(p, [name |-> "getBalance", accountId |-> accountId, currency |-> currency])
    /\ nexec' = [nexec EXCEPT ![p] = 0]
    /\ Goto(p, "getBalance_hLen",
            [total |-> StrGet(strings, getTotalKey(accountId, currency))])
    /\ UNCHANGED <<scanVars, floodVars, adapter, config, hashes, strings>>

getBalance_hLen(p) ==
    /\ pc[p] = "getBalance_hLen"
    /\ Goto(p, "getBalance_hGetAll",
            [total |-> loc[p].total,
             entryCount |-> HLen(hashes, getLedgerKey(op[p].accountId, op[p].currency))])
    /\ UNCHANGED <<scanVars, floodVars, adapter, config, hashes, strings, op, nexec, calls>>

getBalance_hGetAll(p) ==
    LET byContext == HGetAll(hashes, getContextKey(op[p].accountId, op[p].currency))
    IN  /\ pc[p] = "getBalance_hGetAll"
        /\ Finish(p, getBalanceResult(loc[p].total, loc[p].entryCount, byContext), NoLoc)
        /\ UNCHANGED <<scanVars, floodVars, adapter, config, hashes, strings, op, nexec, calls>>

(***************************************************************************)
(* getEntry: one read of the entry's field.                                *)
(***************************************************************************)
\* a faulty variant, which the properties must tell from the code's: an absent
\* entry is an error
getEntryReply_absentThrows(hs, accountId, currency, entryId) ==
    LET raw == HGet(hs, getLedgerKey(accountId, currency), entryId)
    IN  IF IsNull(raw) THEN RetError("NotFound")
        ELSE IF JSONparseThrows(Get1(raw)) THEN RetError("SyntaxError")
        ELSE RetEntry(Some(JSONparse(Get1(raw))))

\* what getEntry returns when the store holds hs: `raw ? JSON.parse(raw) : null`
getEntryReply(hs, accountId, currency, entryId) ==
    LET raw == HGet(hs, getLedgerKey(accountId, currency), entryId)
    IN  IF IsNull(raw) THEN RetEntry(Null)
        ELSE IF JSONparseThrows(Get1(raw)) THEN RetError("SyntaxError")
        ELSE RetEntry(Some(JSONparse(Get1(raw))))

getEntry(p, accountId, currency, entryId) ==
    /\ Begin(p, [name |-> "getEntry", accountId |-> accountId,
                 currency |-> currency, entryId |-> entryId])
    /\ nexec' = [nexec EXCEPT ![p] = 0]
    /\ Finish(p, getEntryReply(hashes, accountId, currency, entryId), NoLoc)
    /\ UNCHANGED <<scanVars, floodVars, adapter, config, hashes, strings>>

(***************************************************************************)
(* getEntriesPaginated: one scan step of the entries hash.                 *)
(***************************************************************************)
\* `cursor: string = "0"`, `count: number = 100`
DefaultCursor == "0"
DefaultCount == 100
OrDefault(arg, d) == IF IsNull(arg) THEN d ELSE Get1(arg)

\* the arguments a caller may pass; Null is an argument left out
CursorArgs == {Null} \cup {Some(c) : c \in Cursors}
CountArgs == {Null} \cup {Some(n) : n \in 1..MaxCount}

\* faulty variants, which the properties must tell from the code's: more is
\* always promised; the page is returned in reverse
getEntriesPaginated_hasMore_always(cursor) == TRUE
getEntriesPaginated_entries_reversed(items) ==
    [i \in DOMAIN items |-> JSONparse(items[Len(items) + 1 - i].value)]

\* `result.cursor !== "0"`
getEntriesPaginated_hasMore(cursor) == cursor # "0"

\* `for (const item of result.entries) entries.push(JSON.parse(item.value))`
getEntriesPaginated_entries(items) == [i \in DOMAIN items |-> JSONparse(items[i].value)]

\* what getEntriesPaginated returns when the store holds hs; a record that
\* does not parse makes JSON.parse throw out of the loop and of the call
getEntriesPaginatedReply(hs, accountId, currency, cursor, count) ==
    LET result == adapter_hScan(adapter, hs, getLedgerKey(accountId, currency), cursor, count)
    IN  IF \E i \in DOMAIN result.entries : JSONparseThrows(result.entries[i].value)
        THEN RetError("SyntaxError")
        ELSE RetPage(getEntriesPaginated_entries(result.entries), result.cursor,
                     getEntriesPaginated_hasMore(result.cursor))

getEntriesPaginated(p, accountId, currency, cursor, count) ==
    /\ Begin(p, [name |-> "getEntriesPaginated", accountId |-> accountId,
                 currency |-> currency, cursor |-> cursor, count |-> count])
    /\ nexec' = [nexec EXCEPT ![p] = 0]
    /\ Finish(p, getEntriesPaginatedReply(hashes, accountId, currency,
                                          OrDefault(cursor, DefaultCursor),
                                          OrDefault(count, DefaultCount)), NoLoc)
    /\ UNCHANGED <<scanVars, floodVars, adapter, config, hashes, strings>>

(***************************************************************************)
(* The caller's pagination loop: getEntriesPaginated from cursor "0", then *)
(* from each returned nextCursor, until hasMore is false.  Every pass is   *)
(* one call of getEntriesPaginated, that is one scan step of the store.    *)
(***************************************************************************)
\* one pass: r is the page returned, l the loop's locals before the pass
pageLoop_pass(p, r, l) ==
    LET all == [cursor |-> r.nextCursor, entries |-> l.entries \o r.entries,
                passes |-> l.passes + 1]
    IN  IF r.hasMore
        THEN Goto(p, "pageLoop_next", all)
        ELSE Finish(p, RetPages(all.entries), all)

pageLoop_first(p, accountId, currency, count) ==
    LET r == getEntriesPaginatedReply(hashes, accountId, currency, DefaultCursor, count)
    IN  /\ Begin(p, [name |-> "pageLoop", accountId |-> accountId,
                     currency |-> currency, count |-> count])
        /\ nexec' = [nexec EXCEPT ![p] = 0]
        /\ IF r.kind = "error"
           THEN Finish(p, r, NoLoc)
           ELSE pageLoop_pass(p, r, [entries |-> << >>, passes |-> 0])
        /\ UNCHANGED <<scanVars, floodVars, adapter, config, hashes, strings>>

pageLoop_next(p) ==
    LET r == getEntriesPaginatedReply(hashes, op[p].accountId, op[p].currency,
                                      loc[p].cursor, op[p].count)
    IN  /\ pc[p] = "pageLoop_next"
        /\ IF r.kind = "error"
           THEN Finish(p, r, loc[p])
           ELSE pageLoop_pass(p, r, loc[p])
        /\ UNCHANGED <<scanVars, floodVars, adapter, config, hashes, strings, op, nexec, calls>>

(***************************************************************************)
(* getConfig: a copy of the configuration; no store command.               *)
(***************************************************************************)
getConfig(p) ==
    /\ Begin(p, [name |-> "getConfig"])
    /\ nexec' = [nexec EXCEPT ![p] = 0]
    /\ Finish(p, RetConfig(config), NoLoc)
    /\ UNCHANGED <<scanVars, floodVars, adapter, config, hashes, strings>>

(***************************************************************************)
(* Store failures.  A store command whose promise rejects makes the        *)
(* `await` throw; no method catches, so the call ends with the error.  A   *)
(* failed grouped write may or may not have been applied by the store.     *)
(***************************************************************************)
\* a faulty variant, which the properties must tell from the code's: the
\* command is issued again
storeFailure_retry(p, l) == Goto(p, pc[p], l)

storeFailure(p, l) == Finish(p, RetError("StoreUnavailable"), l)

addEntry_hExists_fails(p, accountId, currency, entry) ==
    /\ Begin(p, [name |-> "addEntry", accountId |-> accountId,
                 currency |-> currency, entry |-> entry])
    /\ nexec' = [nexec EXCEPT ![p] = 0]
    /\ storeFailure(p, NoLoc)
    /\ UNCHANGED <<scanVars, floodVars, adapter, config, hashes, strings>>

addEntry_hLen_fails(p) ==
    /\ pc[p] = "addEntry_hLen"
    /\ storeFailure(p, loc[p])
    /\ UNCHANGED <<scanVars, floodVars, adapter, config, hashes, strings, op, nexec, calls>>

addEntry_exec_fails(p) ==
    LET w == addEntry_multi(hashes, strings,
                            getLedgerKey(op[p].accountId, op[p].currency),
                            getTotalKey(op[p].accountId, op[p].currency),
                            getContextKey(op[p].accountId, op[p].currency),
                            op[p].entry)
    IN  /\ pc[p] = "addEntry_exec"
        /\ \/ hashes' = w.hashes /\ strings' = w.strings
           \/ UNCHANGED <<hashes, strings>>
        /\ nexec' = [nexec EXCEPT ![p] = @ + 1]
        /\ storeFailure(p, loc[p])
        /\ UNCHANGED <<scanVars, floodVars, adapter, config, op, calls>>

removeEntry_hGet_fails(p, accountId, currency, entryId) ==
    /\ Begin(p, [name |-> "removeEntry", accountId |-> accountId,
                 currency |-> currency, entryId |-> entryId])
    /\ nexec' = [nexec EXCEPT ![p] = 0]
    /\ storeFailure(p, NoLoc)
    /\ UNCHANGED <<scanVars, floodVars, adapter, config, hashes, strings>>

removeEntry_exec_fails(p) ==
    LET w == removeEntry_multi(hashes, strings,
                               getLedgerKey(op[p].accountId, op[p].currency),
                               getTotalKey(op[p].accountId, op[p].currency),
                               getContextKey(op[p].accountId, op[p].currency),
                               op[p].entryId, JSONparse(Get1(loc[p].raw)))
    IN  /\ pc[p] = "removeEntry_exec"
        /\ \/ hashes' = w.hashes /\ strings' = w.strings
           \/ UNCHANGED <<hashes, strings>>
        /\ nexec' = [nexec EXCEPT ![p] = @ + 1]
        /\ storeFailure(p, loc[p])
        /\ UNCHANGED <<scanVars, floodVars, adapter, config, op, calls>>

\* the steps in which a store command of addEntry or removeEntry fails
PreCheckFails(p) ==
    \/ \E a \in Accounts, c \in Currencies :
          \/ \E e \in Entries(c) : addEntry_hExists_fails(p, a, c, e)
          \/ \E i \in Ids : removeEntry_hGet_fails(p, a, c, i)
    \/ addEntry_hLen_fails(p)

WriteFails(p) == addEntry_exec_fails(p) \/ removeEntry_exec_fails(p)

(***************************************************************************)
(* clearLedger: one multi-key delete.                                      *)
(***************************************************************************)
\* faulty variants, which the properties must tell from the code's: the
\* per-context sums are kept; the total is kept
clearLedger_keys_noCtx(accountId, currency) ==
    {getLedgerKey(accountId, currency), getTotalKey(accountId, currency)}
clearLedger_keys_noTotal(accountId, currency) ==
    {getLedgerKey(accountId, currency), getContextKey(accountId, currency)}

\* `[key, totalKey, ctxKey]`
clearLedger_keys(accountId, currency) ==
    {getLedgerKey(accountId, currency), getTotalKey(accountId, currency),
     getContextKey(accountId, currency)}

\* a faulty variant: the total is reset to "0" instead of deleted
clearLedger_reset(p, accountId, currency) ==
    LET keys == clearLedger_keys(accountId, currency)
    IN  /\ Begin(p, [name |-> "clearLedger", accountId |-> accountId, currency |-> currency])
        /\ nexec' = [nexec EXCEPT ![p] = 0]
        /\ hashes' = Del(hashes, keys)
        /\ strings' = [x \in DOMAIN strings \cup {getTotalKey(accountId, currency)} |->
                         IF x = getTotalKey(accountId, currency)
                         THEN DecStr(0, 0) ELSE strings[x]]
        /\ Finish(p, RetVoid, [deleted |-> DelReply(hashes, strings, keys)])
        /\ UNCHANGED <<scanVars, floodVars, adapter, config>>

clearLedger(p, accountId, currency) ==
    LET keys == clearLedger_keys(accountId, currency)
    IN  /\ Begin(p, [name |-> "clearLedger", accountId |-> accountId, currency |-> currency])
        /\ nexec' = [nexec EXCEPT ![p] = 0]
        /\ hashes' = Del(hashes, keys)
        /\ strings' = Del(strings, keys)
        /\ Finish(p, RetVoid, [deleted |-> DelReply(hashes, strings, keys)])
        /\ UNCHANGED <<scanVars, floodVars, adapter, config>>

(***************************************************************************)
(* The scan-based ledger (ledger.ts): one hash per pair and no stored      *)
(* sums; getSum and getBalance read every entry and add the amounts up     *)
(* with BigNumber, which is exact and prints without trailing zeros.       *)
(***************************************************************************)
ledger_getLedgerKey(accountId, currency) == <<"ledger">> \o accountId \o currency

\* HDEL's reply: the number of fields that were removed
HDelReply(hs, k, f) == IF HExists(hs, k, f) THEN 1 ELSE 0

\* HVALS, in the store's order of the fields
HVals(hs, k) ==
    LET order == ScanOrder(DOMAIN HGetAll(hs, k))
    IN  [n \in DOMAIN order |-> hs[k][order[n]]]

\* `new BigNumber(s)`: the number s denotes; `.toString()` (before it a
\* faulty variant, which the properties must tell from the code's: two
\* decimals are always written)
BigNumber(s) == s.v
BigNumber_toString_fixed(v) == DecStr(v, 2)
BigNumber_toString(v) == DecStr(v, MinDecimals(v))

\* `redis.hSet(key, entry.id, JSON.stringify(entry))`
ledger_addEntry(rs, accountId, currency, entry) ==
    HSet(rs, ledger_getLedgerKey(accountId, currency), entry.id, JSONstringify(entry))

\* `removed > 0`, and the store after the hDel
ledger_removeEntry_reply(rs, accountId, currency, entryId) ==
    HDelReply(rs, ledger_getLedgerKey(accountId, currency), entryId) > 0
ledger_removeEntry(rs, accountId, currency, entryId) ==
    HDel(rs, ledger_getLedgerKey(accountId, currency), entryId)

\* `entries.map((e) => JSON.parse(e))`
ledger_getAllEntries(rs, accountId, currency) ==
    LET raws == HVals(rs, ledger_getLedgerKey(accountId, currency))
    IN  [n \in DOMAIN raws |-> JSONparse(raws[n])]

\* `entries.reduce((sum, e) => sum.plus(e.amount), new BigNumber(0))`
RECURSIVE ledger_reduce(_, _)
ledger_reduce(entries, n) ==
    IF n = 0 THEN 0 ELSE ledger_reduce(entries, n - 1) + BigNumber(entries[n].amount)

ledger_getSum(rs, accountId, currency) ==
    LET entries == ledger_getAllEntries(rs, accountId, currency)
    IN  BigNumber_toString(ledger_reduce(entries, Len(entries)))

\* byContext: for every context met, the sum of the amounts of its entries
ledger_byContext(entries) ==
    [x \in {entries[n].context : n \in DOMAIN entries} |->
        BigNumber_toString(
            ledger_reduce(SelectSeq(entries, LAMBDA e : e.context = x),
                          Len(SelectSeq(entries, LAMBDA e : e.context = x))))]

ledger_getBalance(rs, accountId, currency) ==
    LET entries == ledger_getAllEntries(rs, accountId, currency)
    IN  RetBalance(BigNumber_toString(ledger_reduce(entries, Len(entries))),
                   ledger_byContext(entries), Len(entries))

\* `redis.del(key)`
ledger_clearLedger(rs, accountId, currency) ==
    Del(rs, {ledger_getLedgerKey(accountId, currency)})

\* the test applies to the scan-based ledger the call caller p has just
\* completed on the Ledger, and keeps what it returns
ledger_apply(rs, o) ==
    CASE o.name = "addEntry" ->
            [redis |-> ledger_addEntry(rs, o.accountId, o.currency, o.entry),
             ret |-> RetVoid]
      [] o.name = "removeEntry" ->
            [redis |-> ledger_removeEntry(rs, o.accountId, o.currency, o.entryId),
             ret |-> RetBool(ledger_removeEntry_reply(rs, o.accountId, o.currency, o.entryId))]
      [] o.name = "getSum" ->
            [redis |-> rs, ret |-> RetSum(ledger_getSum(rs, o.accountId, o.currency))]
      [] o.name = "getBalance" ->
            [redis |-> rs, ret |-> ledger_getBalance(rs, o.accountId, o.currency)]
      [] o.name = "clearLedger" ->
            [redis |-> ledger_clearLedger(rs, o.accountId, o.currency), ret |-> RetVoid]

apply(p) ==
    /\ pc[p] = "done"
    /\ applied < calls[p]
    /\ redis' = ledger_apply(redis, op[p]).redis
    /\ scanRet' = ledger_apply(redis, op[p]).ret
    /\ applied' = calls[p]
    /\ refused' = (refused \/ ret[p] = RetError("LimitExceeded"))
    /\ UNCHANGED before
    /\ UNCHANGED <<floodVars, adapter, config, hashes, strings, pc, op, loc, ret, nexec, calls>>

(***************************************************************************)
(* The flood harness (flood.ts): runFlood fires targetOps operations in a  *)
(* synchronous loop; each awaits a permit of the Semaphore, adds one entry *)
(* through the scan-based ledger, reads the balance if it is its turn, and *)
(* releases the permit in its `finally`.  An operation stands at           *)
(* "waiting" (its acquire() is pending), "acquired" (acquire() has         *)
(* resolved, addEntry not yet answered), "reading" (getBalance not yet     *)
(* answered) or "settled".                                                 *)
(***************************************************************************)
readInterval == 10

FloodConfigs ==
    {[accountId |-> <<"flood">>, currency |-> <<"vnd">>, targetOps |-> FloodOps,
      concurrency |-> k, includeReads |-> r, readInterval |-> readInterval,
      cleanupAfter |-> cl] : k \in 1..MaxPermits, r \in BOOLEAN, cl \in BOOLEAN}

\* the entry operation k adds: a fresh id, context "flood", amount "1000"
floodEntry(cfg, k) == LedgerEntry(k, "flood", cfg.currency, DecStr(100000, 0))

\* `new Semaphore(config.concurrency)` and the counters of runFlood at its start
runFlood_start(cfg) ==
    /\ floodConfig = Some(cfg)
    /\ permits = cfg.concurrency
    /\ waiting = << >>
    /\ operations = << >>
    /\ successCount = 0
    /\ failureCount = 0
    /\ floodResult = Null

\* Semaphore.acquire() called by operation k: the permits and the queue
\* after the call, and whether the promise returned is resolved
Semaphore_acquire(k) ==
    IF permits > 0
    THEN [permits |-> permits - 1, waiting |-> waiting, resolved |-> TRUE]
    ELSE [permits |-> permits, waiting |-> Append(waiting, k), resolved |-> FALSE]

\* a faulty variant, which the properties must tell from the code's: a
\* permit is put back also when it is handed to a waiter
Semaphore_release_always ==
    IF waiting # << >>
    THEN [permits |-> permits + 1, waiting |-> Tail(waiting), next |-> Some(Head(waiting))]
    ELSE [permits |-> permits + 1, waiting |-> waiting, next |-> Null]

\* Semaphore.release(): `next = waiting.shift(); if (next) next(); else permits++`
Semaphore_release ==
    IF waiting # << >>
    THEN [permits |-> permits, waiting |-> Tail(waiting), next |-> Some(Head(waiting))]
    ELSE [permits |-> permits + 1, waiting |-> waiting, next |-> Null]

\* the loop body: operation i is fired and runs up to its `await semaphore.acquire()`
runFlood_fire ==
    LET cfg == Get1(floodConfig)
        k == Len(operations) + 1
        a == Semaphore_acquire(k)
    IN  /\ ~IsNull(floodConfig)
        /\ Len(operations) < cfg.targetOps
        /\ permits' = a.permits
        /\ waiting' = a.waiting
        /\ operations' = Append(operations, IF a.resolved THEN "acquired" ELSE "waiting")
        /\ UNCHANGED <<floodConfig, successCount, failureCount, floodResult>>
        /\ UNCHANGED <<scanVars, adapter, config, hashes, strings, pc, op, loc, ret, nexec, calls>>

\* the loop is synchronous: no operation resumes before all are fired
Fired == ~IsNull(floodConfig) /\ Len(operations) = Get1(floodConfig).targetOps

\* the `finally` of operation k: it settles, and the waiter that release()
\* resumes, if any, has acquired
op_finally(k) ==
    LET r == Semaphore_release
    IN  /\ permits' = r.permits
        /\ waiting' = r.waiting
        /\ operations' = [n \in DOMAIN operations |->
                            IF n = k THEN "settled"
                            ELSE IF r.next = Some(n) THEN "acquired"
                            ELSE operations[n]]

\* `opIndex % config.readInterval === 0`, opIndex counted from 0
op_reads(cfg, k) == cfg.includeReads /\ (k - 1) % cfg.readInterval = 0

\* addEntry is answered: the entry is stored and the operation counted a
\* success, after which it reads the balance or ends
op_addEntry(k) ==
    LET cfg == Get1(floodConfig)
    IN  /\ Fired /\ operations[k] = "acquired"
        /\ redis' = ledger_addEntry(redis, cfg.accountId, cfg.currency, floodEntry(cfg, k))
        /\ successCount' = successCount + 1
        /\ IF op_reads(cfg, k)
           THEN /\ operations' = [operations EXCEPT ![k] = "reading"]
                /\ UNCHANGED <<permits, waiting>>
           ELSE op_finally(k)
        /\ UNCHANGED <<floodConfig, failureCount, floodResult>>
        /\ UNCHANGED <<scanRet, applied, refused, before>>
        /\ UNCHANGED <<adapter, config, hashes, strings, pc, op, loc, ret, nexec, calls>>

\* addEntry throws (the store fails): the `catch` counts a failure
op_addEntry_throws(k) ==
    /\ Fired /\ operations[k] = "acquired"
    /\ failureCount' = failureCount + 1
    /\ op_finally(k)
    /\ UNCHANGED <<floodConfig, successCount, floodResult>>
    /\ UNCHANGED <<scanVars, adapter, config, hashes, strings, pc, op, loc, ret, nexec, calls>>

\* getBalance is answered
op_getBalance(k) ==
    /\ Fired /\ operations[k] = "reading"
    /\ op_finally(k)
    /\ UNCHANGED <<floodConfig, successCount, failureCount, floodResult>>
    /\ UNCHANGED <<scanVars, adapter, config, hashes, strings, pc, op, loc, ret, nexec, calls>>

\* getBalance throws (the store fails): the same `catch` counts a failure
op_getBalance_throws(k) ==
    /\ Fired /\ operations[k] = "reading"
    /\ failureCount' = failureCount + 1
    /\ op_finally(k)
    /\ UNCHANGED <<floodConfig, successCount, floodResult>>
    /\ UNCHANGED <<scanVars, adapter, config, hashes, strings, pc, op, loc, ret, nexec, calls>>

\* after `Promise.allSettled(operations)`: the final hLen, the cleanup if
\* asked for, and the FloodResult
runFlood_return ==
    LET cfg == Get1(floodConfig)
        key == ledger_getLedgerKey(cfg.accountId, cfg.currency)
    IN  /\ Fired /\ IsNull(floodResult)
        /\ \A k \in DOMAIN operations : operations[k] = "settled"
        /\ redis' = IF cfg.cleanupAfter
                    THEN ledger_clearLedger(redis, cfg.accountId, cfg.currency)
                    ELSE redis
        /\ floodResult' = Some([totalAttempted |-> cfg.targetOps,
                                successCount |-> successCount,
                                failureCount |-> failureCount,
                                hashSize |-> HLen(redis, key)])
        /\ UNCHANGED <<floodConfig, permits, waiting, operations, successCount, failureCount>>
        /\ UNCHANGED <<scanRet, applied, refused, before>>
        /\ UNCHANGED <<adapter, config, hashes, strings, pc, op, loc, ret, nexec, calls>>

(***************************************************************************)
(* Specifications.                                                         *)
(***************************************************************************)
\* the steps that continue a call in flight
Continue(p) ==
    \/ addEntry_hLen(p)
    \/ addEntry_exec(p)
    \/ removeEntry_exec(p)
    \/ getBalance_hLen(p)
    \/ getBalance_hGetAll(p)

\* the steps that begin a call on a pair of A x C
CallOn(p, A, C) ==
    \E a \in A, c \in C :
        \/ \E e \in Entries(c) : addEntry_hExists(p, a, c, e)
        \/ \E i \in Ids : removeEntry_hGet(p, a, c, i)
        \/ getSum(p, a, c)
        \/ getBalance_get(p, a, c)
        \/ clearLedger(p, a, c)

\* the steps that begin a call
Call(p) == CallOn(p, Accounts, Currencies)

\* the steps that begin a read of entries
ReadCall(p) ==
    \E a \in Accounts, c \in Currencies :
        \/ \E i \in Ids : getEntry(p, a, c, i)
        \/ \E cursor \in CursorArgs, count \in CountArgs :
                getEntriesPaginated(p, a, c, cursor, count)
        \/ \E count \in 1..MaxCount : pageLoop_first(p, a, c, count)

\* callers run concurrently: any interleaving of their store commands
Next == \E p \in Procs : Call(p) \/ Continue(p)

Spec == Init /\ [][Next]_vars

\* calls are made one at a time, by either of two callers: a call begins only
\* when none is in flight
SeqCallers == {p \in Procs : p <= 2}

SeqNext == \E p \in SeqCallers : (Quiescent /\ Call(p)) \/ Continue(p)

SeqSpec == Init /\ [][SeqNext]_vars

\* one caller makes every call, each after the one before has completed
SoloCallers == {p \in Procs : p <= 1}

SoloNext == \E p \in SoloCallers : Call(p) \/ ReadCall(p) \/ Continue(p) \/ pageLoop_next(p)

SoloSpec == Init /\ [][SoloNext]_vars

\* one caller, and a Ledger built with or without a key prefix of its own
KeyConfigInputs ==
    {[maxEntriesPerKey |-> Null, keyPrefix |-> k] : k \in {Null, Some(<<"myledger">>)}}

KeyInit == InitWith(KeyConfigInputs)

KeySpec == KeyInit /\ [][SoloNext]_vars

\* one caller, and a store any of whose replies to addEntry and removeEntry
\* may be a failure
FailNext ==
    \E p \in SoloCallers : Call(p) \/ Continue(p) \/ PreCheckFails(p) \/ WriteFails(p)

FailSpec == Init /\ [][FailNext]_vars

\* one caller, and a Ledger built with any of the two options supplied or not
FullConfigInputs ==
    {[maxEntriesPerKey |-> m, keyPrefix |-> k] :
        m \in {Null, Some(TestLimit)}, k \in {Null, Some(<<"myledger">>)}}

ConfigNext == \E p \in SoloCallers : Call(p) \/ Continue(p) \/ getConfig(p)

ConfigSpec == InitWith(FullConfigInputs) /\ [][ConfigNext]_vars

\* one caller, and a Ledger built on a client of either shape
AdapterInit == InitOn(ConfigInputs, {NodeRedisClient, IORedisClient})

AdapterSpec == AdapterInit /\ [][SoloNext]_vars

\* one caller, and pairs whose account or currency holds a ":": the account
\* "a:b" with the currency "c", the account "a" with the currency "b:c"
PairAccounts == {<<"a">>, <<"a", "b">>}
PairCurrencies == {<<"c">>, <<"b", "c">>}

PairNext == \E p \in SoloCallers : CallOn(p, PairAccounts, PairCurrencies) \/ Continue(p)

PairSpec == Init /\ [][PairNext]_vars

\* a client other than the Ledger stores, once, a value that is not JSON
\* text under a field of the entries hash
foreignWrite(accountId, currency, field) ==
    /\ Quiescent
    /\ LET h == HGetAll(hashes, getLedgerKey(accountId, currency))
       IN  \A f \in DOMAIN h : ~JSONparseThrows(h[f])
    /\ hashes' = HSet(hashes, getLedgerKey(accountId, currency), field, Malformed)
    /\ UNCHANGED <<scanVars, floodVars, adapter, config, strings, pc, op, loc, ret, nexec, calls>>

\* one caller adds entries and reads pages, next to such a client
ForeignNext ==
    \/ \E a \in Accounts, c \in Currencies, i \in Ids : foreignWrite(a, c, i)
    \/ \E p \in SoloCallers :
          \/ \E a \in Accounts, c \in Currencies :
                \/ \E e \in Entries(c) : addEntry_hExists(p, a, c, e)
                \/ \E cursor \in CursorArgs, count \in CountArgs :
                        getEntriesPaginated(p, a, c, cursor, count)
          \/ addEntry_hLen(p)
          \/ addEntry_exec(p)

ForeignSpec == Init /\ [][ForeignNext]_vars

\* the same, the caller making every kind of read
ForeignReadNext ==
    \/ ForeignNext
    \/ \E p \in SoloCallers :
          \/ \E a \in Accounts, c \in Currencies :
                \/ \E i \in Ids : getEntry(p, a, c, i)
                \/ getSum(p, a, c)
                \/ getBalance_get(p, a, c)
          \/ getBalance_hLen(p)
          \/ getBalance_hGetAll(p)

ForeignReadSpec == Init /\ [][ForeignReadNext]_vars

\* one caller whose every call is applied to the scan-based ledger as well
\* before the next begins; an entry is added only under an id that neither
\* ledger holds
MirrorCall(p) ==
    \E a \in Accounts, c \in Currencies :
        \/ \E e \in Entries(c) :
              /\ ~HExists(hashes, getLedgerKey(a, c), e.id)
              /\ ~HExists(redis, ledger_getLedgerKey(a, c), e.id)
              /\ addEntry_hExists(p, a, c, e)
        \/ \E i \in Ids : removeEntry_hGet(p, a, c, i)
        \/ getSum(p, a, c)
        \/ getBalance_get(p, a, c)
        \/ clearLedger(p, a, c)

MirrorNext ==
    \E p \in SoloCallers :
        \/ applied = calls[p] /\ MirrorCall(p)
        \/ Continue(p)
        \/ apply(p)

MirrorSpec == Init /\ [][MirrorNext]_vars

\* one flood, of any configuration, on an empty store
FloodInit ==
    /\ LedgerInit(ConfigInputs, {NodeRedisClient})
    /\ ScanInit
    /\ \E cfg \in FloodConfigs : runFlood_start(cfg)

FloodNext ==
    \/ runFlood_fire
    \/ \E k \in 1..FloodOps :
          \/ op_addEntry(k)
          \/ op_addEntry_throws(k)
          \/ op_getBalance(k)
          \/ op_getBalance_throws(k)
    \/ runFlood_return

FloodSpec == FloodInit /\ [][FloodNext]_vars

\* the test notes the store's content between two calls of caller p
note(p) ==
    /\ Free(p)
    /\ before.calls # calls[p]
    /\ before' = [hashes |-> hashes, strings |-> strings, calls |-> calls[p]]
    /\ UNCHANGED <<redis, scanRet, applied, refused>>
    /\ UNCHANGED <<floodVars, adapter, config, hashes, strings, pc, op, loc, ret, nexec, calls>>

\* one caller, and a test that notes the store between calls
RoundTripNext == \E p \in SoloCallers : Call(p) \/ Continue(p) \/ note(p)

RoundTripSpec == Init /\ [][RoundTripNext]_vars

\* caller 1 adds one entry; after that every caller makes one call, all
\* running concurrently
Seeded == calls[1] >= 2 \/ (calls[1] = 1 /\ pc[1] = "done")

ClearRaceNext ==
    \E p \in Procs :
        \/ /\ TotalCalls = 0 /\ p = 1
           /\ \E a \in Accounts, c \in Currencies : \E e \in Entries(c) :
                e.id = 1 /\ addEntry_hExists(p, a, c, e)
        \/ /\ Seeded
           /\ calls[p] = (IF p = 1 THEN 1 ELSE 0)
           /\ Call(p)
        \/ Continue(p)

ClearRaceSpec == Init /\ [][ClearRaceNext]_vars

\* every caller makes one call, an addEntry, all with the same entry id
SameIdNext ==
    \E p \in Procs :
        \/ /\ pc[p] = "idle"
           /\ \E a \in Accounts, c \in Currencies : \E e \in Entries(c) :
                e.id = 1 /\ addEntry_hExists(p, a, c, e)
        \/ addEntry_hLen(p)
        \/ addEntry_exec(p)

SameIdSpec == Init /\ [][SameIdNext]_vars

\* every caller makes one call, an addEntry, with an entry id no other caller uses
DistinctIdNext ==
    \E p \in Procs :
        \/ /\ pc[p] = "idle"
           /\ \E a \in Accounts, c \in Currencies : \E e \in Entries(c) :
                /\ \A q \in Procs : op[q] # NoOp => op[q].entry.id # e.id
                /\ addEntry_hExists(p, a, c, e)
        \/ addEntry_hLen(p)
        \/ addEntry_exec(p)

DistinctIdSpec == Init /\ [][DistinctIdNext]_vars

\* one entry is added, then every caller makes one call, a removeEntry of that entry
Adding == \E q \in Procs : pc[q] \in {"addEntry_hLen", "addEntry_exec"}

RemoveRaceNext ==
    \E p \in Procs :
        \/ /\ TotalCalls = 0
           /\ \E a \in Accounts, c \in Currencies : \E e \in Entries(c) :
                e.id = 1 /\ addEntry_hExists(p, a, c, e)
        \/ addEntry_hLen(p)
        \/ addEntry_exec(p)
        \/ /\ TotalCalls > 0 /\ ~Adding
           /\ op[p].name # "removeEntry"
           /\ \E a \in Accounts, c \in Currencies : removeEntry_hGet(p, a, c, 1)
        \/ removeEntry_exec(p)

RemoveRaceSpec == Init /\ [][RemoveRaceNext]_vars

(***************************************************************************)
(* Vocabulary of the properties.                                           *)
(***************************************************************************)
\* the number a decimal string denotes, in hundredths
DecimalValue(s) == s.v

\* the entries stored for a pair
PresentEntries(hs, a, c) ==
    LET h == HGetAll(hs, getLedgerKey(a, c)) IN {JSONparse(h[f]) : f \in DOMAIN h}

RECURSIVE SumAmounts(_)
SumAmounts(S) ==
    IF S = {} THEN 0
    ELSE LET e == CHOOSE x \in S : TRUE
         IN  DecimalValue(e.amount) + SumAmounts(S \ {e})

WithContext(S, x) == {e \in S : e.context = x}

\* the stored total and per-context sums, an absent one counting as zero
StoredTotal(a, c) ==
    LET t == StrGet(strings, getTotalKey(a, c))
    IN  IF IsNull(t) THEN 0 ELSE DecimalValue(Get1(t))

StoredContextSum(a, c, x) ==
    LET t == HGet(hashes, getContextKey(a, c), x)
    IN  IF IsNull(t) THEN 0 ELSE DecimalValue(Get1(t))

\* the ledger key a call addresses
KeyOf(o) == getLedgerKey(o.accountId, o.currency)

AllDone == \A p \in Procs : pc[p] = "done"
Succeeded(p) == pc[p] = "done" /\ ret[p] = RetVoid
Failed(p, e) == pc[p] = "done" /\ ret[p] = RetError(e)

\* caller p begins a call in this step
Begins(p, name) == calls'[p] = calls[p] + 1 /\ op'[p].name = name

StoreUnchanged == hashes' = hashes /\ strings' = strings

(***************************************************************************)
(* C1.  Calls made one at a time: whenever a call has completed, getSum    *)
(* is the sum of the amounts of the present entries, and for every context *)
(* with a present entry getBalance().byContext holds the sum of the        *)
(* amounts of the present entries of that context.                         *)
(***************************************************************************)
C1_SumsMatchEntries ==
    Quiescent =>
        \A a \in Accounts, c \in Currencies :
            LET present == PresentEntries(hashes, a, c)
                balance == getBalanceReply(hashes, strings, a, c)
            IN  /\ DecimalValue(getSumReply(strings, a, c)) = SumAmounts(present)
                /\ DecimalValue(balance.total) = SumAmounts(present)
                /\ \A x \in Contexts :
                       WithContext(present, x) # {} =>
                           /\ x \in DOMAIN balance.byContext
                           /\ DecimalValue(balance.byContext[x])
                                  = SumAmounts(WithContext(present, x))

\* an entry has been removed while another one stays
C1_Witness ==
    /\ Quiescent
    /\ \E p \in Procs : op[p].name = "removeEntry" /\ ret[p] = RetBool(TRUE)
    /\ \E a \in Accounts, c \in Currencies : PresentEntries(hashes, a, c) # {}

(***************************************************************************)
(* C2.  Concurrent addEntry calls that share one entry id (the id absent   *)
(* before, the limit out of reach): once all have completed, exactly one   *)
(* has succeeded and all the others have failed with DuplicateEntry.       *)
(***************************************************************************)
C2_ExactlyOneSuccess ==
    (AllDone /\ config.maxEntriesPerKey > NProcs) =>
        /\ Cardinality({p \in Procs : Succeeded(p)}) = 1
        /\ Cardinality({p \in Procs : Failed(p, "DuplicateEntry")}) = NProcs - 1

(***************************************************************************)
(* C3.  Concurrent addEntry calls with pairwise distinct ids, no more of   *)
(* them than maxEntriesPerKey: none fails, and once all have completed     *)
(* getSum is the sum of all their amounts and byContext holds, for each    *)
(* context, the sum of the amounts added under it.                         *)
(***************************************************************************)
Started == {p \in Procs : op[p] # NoOp}

RECURSIVE SumOfAdds(_)
SumOfAdds(P) ==
    IF P = {} THEN 0
    ELSE LET p == CHOOSE x \in P : TRUE
         IN  DecimalValue(op[p].entry.amount) + SumOfAdds(P \ {p})

C3_DistinctAddsAllSucceed ==
    Cardinality(Started) <= config.maxEntriesPerKey =>
        /\ \A p \in Procs : pc[p] = "done" => ret[p] = RetVoid
        /\ Quiescent =>
               \A a \in Accounts, c \in Currencies :
                   /\ DecimalValue(getSumReply(strings, a, c)) = SumOfAdds(Started)
                   /\ \A x \in Contexts :
                          StoredContextSum(a, c, x)
                              = SumOfAdds({p \in Started : op[p].entry.context = x})

\* every caller has added its entry, and each had read the entry count before
\* any of them wrote
C3_Witness ==
    /\ AllDone
    /\ \A p \in Procs : ret[p] = RetVoid /\ loc[p].count = 0

(***************************************************************************)
(* C4.  Concurrent removeEntry calls of the same present entry: at most    *)
(* one of them returns true, and once all have completed the total and the *)
(* context sum have been decremented by the entry's amount once (they are  *)
(* back at zero).                                                          *)
(***************************************************************************)
C4_AtMostOneRemoverWins ==
    /\ Cardinality({p \in Procs : op[p].name = "removeEntry" /\ ret[p] = RetBool(TRUE)}) <= 1
    /\ \A a \in Accounts, c \in Currencies :
           (Quiescent /\ PresentEntries(hashes, a, c) = {}) =>
               /\ StoredTotal(a, c) = 0
               /\ \A x \in Contexts : StoredContextSum(a, c, x) = 0

(***************************************************************************)
(* C5.  Invariant I1 under concurrency: at every point where no call is in *)
(* flight the stored total is the sum of the amounts of the present        *)
(* entries, and each stored context sum is the sum of the amounts of the   *)
(* present entries of that context.                                        *)
(***************************************************************************)
C5_I1AtQuiescence ==
    Quiescent =>
        \A a \in Accounts, c \in Currencies :
            /\ StoredTotal(a, c) = SumAmounts(PresentEntries(hashes, a, c))
            /\ \A x \in Contexts :
                   StoredContextSum(a, c, x)
                       = SumAmounts(WithContext(PresentEntries(hashes, a, c), x))

(***************************************************************************)
(* C6.  Invariant I2 under concurrency: the grouped write of an addEntry   *)
(* never changes the value stored under an id that is already present.     *)
(***************************************************************************)
C6_NoOverwrite ==
    [][\A p \in Procs :
          (pc[p] = "addEntry_exec" /\ pc'[p] = "done") =>
              \A i \in Ids :
                  HExists(hashes, KeyOf(op[p]), i) =>
                      HGet(hashes', KeyOf(op[p]), i) = HGet(hashes, KeyOf(op[p]), i)]_vars

(***************************************************************************)
(* C7.  Invariant I3 under concurrency: with concurrent addEntry calls of  *)
(* distinct ids, the number of entries stored for a pair never exceeds     *)
(* maxEntriesPerKey.                                                       *)
(***************************************************************************)
C7_EntryLimit ==
    \A a \in Accounts, c \in Currencies :
        HLen(hashes, getLedgerKey(a, c)) <= config.maxEntriesPerKey

(***************************************************************************)
(* C8.  Calls made one at a time: an addEntry whose id is present ends at  *)
(* once with DuplicateEntry, having changed neither the entries, the total *)
(* nor the context sums, and having issued no grouped write.               *)
(***************************************************************************)
C8_DuplicateRejected ==
    [][\A p \in Procs :
          (Begins(p, "addEntry") /\ HExists(hashes, KeyOf(op'[p]), op'[p].entry.id)) =>
              /\ pc'[p] = "done"
              /\ ret'[p] = RetError("DuplicateEntry")
              /\ nexec'[p] = 0
              /\ StoreUnchanged]_vars

\* a duplicate was rejected, and the entry stored under its id is another one
C8_Witness ==
    \E p \in Procs :
        /\ Failed(p, "DuplicateEntry")
        /\ op[p].name = "addEntry"
        /\ HExists(hashes, KeyOf(op[p]), op[p].entry.id)
        /\ HGet(hashes, KeyOf(op[p]), op[p].entry.id) # Some(JSONstringify(op[p].entry))

(***************************************************************************)
(* C9.  Calls made one at a time: an addEntry with a fresh id, made while  *)
(* the pair holds at least maxEntriesPerKey entries, passes the duplicate  *)
(* check and then ends with LimitExceeded; neither step changes the        *)
(* entries, the total or the context sums, and no grouped write is issued. *)
(***************************************************************************)
C9_LimitRejected ==
    [][\A p \in Procs :
          /\ (/\ Begins(p, "addEntry")
              /\ ~HExists(hashes, KeyOf(op'[p]), op'[p].entry.id)
              /\ HLen(hashes, KeyOf(op'[p])) >= config.maxEntriesPerKey) =>
                 /\ pc'[p] = "addEntry_hLen"
                 /\ StoreUnchanged
          /\ (/\ pc[p] = "addEntry_hLen" /\ pc'[p] # "addEntry_hLen"
              /\ HLen(hashes, KeyOf(op[p])) >= config.maxEntriesPerKey) =>
                 /\ pc'[p] = "done"
                 /\ ret'[p] = RetError("LimitExceeded")
                 /\ nexec'[p] = 0
                 /\ StoreUnchanged]_vars

\* a fresh id was rejected at the limit
C9_Witness ==
    \E p \in Procs :
        /\ Failed(p, "LimitExceeded")
        /\ ~HExists(hashes, KeyOf(op[p]), op[p].entry.id)
        /\ HLen(hashes, KeyOf(op[p])) = config.maxEntriesPerKey

(***************************************************************************)
(* C10.  Calls made one at a time: a removeEntry of an absent id ends at   *)
(* once with false, with no grouped write and nothing changed; a           *)
(* removeEntry of a present id returns true and leaves the id absent, so   *)
(* that removing it again returns false and changes nothing.               *)
(***************************************************************************)
C10_RemovalIdempotent ==
    [][\A p \in Procs :
          /\ (Begins(p, "removeEntry") /\ ~HExists(hashes, KeyOf(op'[p]), op'[p].entryId)) =>
                 /\ pc'[p] = "done"
                 /\ ret'[p] = RetBool(FALSE)
                 /\ nexec'[p] = 0
                 /\ StoreUnchanged
          /\ (Begins(p, "removeEntry") /\ HExists(hashes, KeyOf(op'[p]), op'[p].entryId)) =>
                 /\ pc'[p] = "removeEntry_exec"
                 /\ StoreUnchanged
          /\ (pc[p] = "removeEntry_exec" /\ pc'[p] = "done") =>
                 /\ ret'[p] = RetBool(TRUE)
                 /\ nexec'[p] = 1
                 /\ ~HExists(hashes', KeyOf(op[p]), op[p].entryId)]_vars

\* q added an entry, p removed it (true), then q removed it again (false)
C10_Witness ==
    \E p \in Procs, q \in Procs :
        /\ Quiescent /\ calls[p] = 1 /\ calls[q] = 2
        /\ op[p].name = "removeEntry" /\ ret[p] = RetBool(TRUE)
        /\ op[q].name = "removeEntry" /\ ret[q] = RetBool(FALSE)
        /\ op[p].entryId = op[q].entryId
        /\ ~HExists(hashes, KeyOf(op[q]), op[q].entryId)

(***************************************************************************)
(* Vocabulary of the properties about clearing and reading.                *)
(***************************************************************************)
\* the three keys of a pair, and a pair none of whose keys exists
PairKeys(a, c) == {getLedgerKey(a, c), getTotalKey(a, c), getContextKey(a, c)}
PairAbsent(hs, ss, a, c) == PairKeys(a, c) \cap (DOMAIN hs \cup DOMAIN ss) = {}

\* what the reads of a never-written pair return
ZeroString == DecStr(0, 0)
EmptyBalance == RetBalance(ZeroString, << >>, 0)

\* a call of caller p in flight
InFlight(p) == ~Free(p)

(***************************************************************************)
(* C11.  Calls made one at a time: right after clearLedger of a pair,      *)
(* getSum of the pair returns "0", getBalance returns total "0", an empty  *)
(* byContext and entryCount 0, getEntry returns null for every id, and     *)
(* none of the pair's keys exists, which is the state of a pair that was   *)
(* never written, so that later calls behave as on such a pair.            *)
(***************************************************************************)
C11_ClearCompletes ==
    [][\A p \in Procs :
        Begins(p, "clearLedger") =>
            LET a == op'[p].accountId
                c == op'[p].currency
            IN  /\ pc'[p] = "done" /\ ret'[p] = RetVoid
                /\ getSumReply(strings', a, c) = ZeroString
                /\ getBalanceReply(hashes', strings', a, c) = EmptyBalance
                /\ \A i \in Ids : getEntryReply(hashes', a, c, i) = RetEntry(Null)
                /\ PairAbsent(hashes', strings', a, c)]_vars

\* a ledger holding an entry, its total and its context sum has been cleared
C11_Witness ==
    \E p \in Procs :
        /\ pc[p] = "done" /\ op[p].name = "clearLedger" /\ ret[p] = RetVoid
        /\ loc[p].deleted = 3
        /\ PairAbsent(hashes, strings, op[p].accountId, op[p].currency)

(***************************************************************************)
(* C12.  Callers running concurrently: the step in which clearLedger       *)
(* issues its delete removes the entries hash, the total and the context   *)
(* sums of the pair together and completes the call; no state lies between *)
(* in which another caller could find only some of the three removed.      *)
(***************************************************************************)
C12_ClearIsOneStep ==
    [][\A p \in Procs :
        Begins(p, "clearLedger") =>
            LET a == op'[p].accountId
                c == op'[p].currency
            IN  /\ pc'[p] = "done"
                /\ getLedgerKey(a, c) \notin DOMAIN hashes'
                /\ getContextKey(a, c) \notin DOMAIN hashes'
                /\ getTotalKey(a, c) \notin DOMAIN strings']_vars

\* a clearLedger has removed all three keys while another caller's call was in flight
C12_Witness ==
    \E p, q \in Procs :
        /\ p # q
        /\ pc[p] = "done" /\ op[p].name = "clearLedger" /\ loc[p].deleted = 3
        /\ InFlight(q)

(***************************************************************************)
(* C13.  Calls made one at a time: clearLedger of a pair none of whose     *)
(* keys exists completes without error and leaves the store unchanged;     *)
(* and since every clearLedger leaves none of the pair's keys, a second    *)
(* clearLedger changes nothing that the first has not.                     *)
(***************************************************************************)
C13_ClearIdempotent ==
    [][\A p \in Procs :
        Begins(p, "clearLedger") =>
            LET a == op'[p].accountId
                c == op'[p].currency
            IN  /\ pc'[p] = "done" /\ ret'[p] = RetVoid
                /\ PairAbsent(hashes, strings, a, c) => StoreUnchanged
                /\ Del(hashes', PairKeys(a, c)) = hashes'
                /\ Del(strings', PairKeys(a, c)) = strings']_vars

\* a clearLedger has completed that found none of the pair's keys
C13_Witness ==
    \E p \in Procs :
        /\ pc[p] = "done" /\ op[p].name = "clearLedger" /\ ret[p] = RetVoid
        /\ loc[p].deleted = 0
        /\ calls[p] >= 2

(***************************************************************************)
(* C14.  Calls made one at a time: the pagination loop, for every page     *)
(* size, ends having yielded every stored entry exactly once; while it     *)
(* runs it has made fewer passes than there are stored entries, so it      *)
(* ends after at most that many passes (one pass for an empty ledger).     *)
(***************************************************************************)
Yielded(es) == {es[i] : i \in DOMAIN es}

C14_PaginationComplete ==
    \A p \in Procs :
        op[p].name = "pageLoop" =>
            LET stored == PresentEntries(hashes, op[p].accountId, op[p].currency)
            IN  /\ pc[p] = "done" =>
                    /\ ret[p].kind = "pages"
                    /\ Yielded(ret[p].entries) = stored
                    /\ Len(ret[p].entries) = Cardinality(stored)
                    /\ loc[p].passes <= IF stored = {} THEN 1 ELSE Cardinality(stored)
                /\ pc[p] = "pageLoop_next" =>
                    /\ loc[p].passes <= Len(loc[p].entries)
                    /\ Len(loc[p].entries) < Cardinality(stored)

\* a loop over two stored entries has ended after two passes
C14_Witness ==
    \E p \in Procs :
        /\ pc[p] = "done" /\ op[p].name = "pageLoop" /\ ret[p].kind = "pages"
        /\ loc[p].passes = 2
        /\ Len(ret[p].entries) = 2

(***************************************************************************)
(* C15.  Calls made one at a time: getEntriesPaginated scans from the      *)
(* cursor given ("0" when left out) with the page size given (100 when     *)
(* left out); it returns the scan's cursor as nextCursor, hasMore true     *)
(* exactly when that cursor is not "0", and as entries the values of the   *)
(* scanned page, deserialized, in the order of the scan; the store is      *)
(* left unchanged.                                                         *)
(***************************************************************************)
C15_PageShape ==
    [][\A p \in Procs :
        Begins(p, "getEntriesPaginated") =>
            LET o == op'[p]
                cursor == IF o.cursor = Null THEN "0" ELSE o.cursor[1]
                count == IF o.count = Null THEN 100 ELSE o.count[1]
                scan == HScan(hashes, getLedgerKey(o.accountId, o.currency), cursor, count)
                r == ret'[p]
            IN  /\ pc'[p] = "done" /\ r.kind = "page"
                /\ r.nextCursor = scan.cursor
                /\ r.hasMore <=> (r.nextCursor # "0")
                /\ Len(r.entries) = Len(scan.entries)
                /\ \A i \in DOMAIN scan.entries :
                        JSONstringify(r.entries[i]) = scan.entries[i].value
                /\ StoreUnchanged]_vars

\* a call with both arguments left out has returned a whole ledger of two
\* different entries, and no more to come
C15_Witness ==
    \E p \in Procs :
        /\ pc[p] = "done" /\ op[p].name = "getEntriesPaginated"
        /\ op[p].cursor = Null /\ op[p].count = Null
        /\ ret[p].kind = "page" /\ Len(ret[p].entries) = 2
        /\ ret[p].entries[1].context # ret[p].entries[2].context
        /\ ret[p].nextCursor = "0" /\ ~ret[p].hasMore

(***************************************************************************)
(* C16.  Calls made one at a time, on a pair none of whose keys exists     *)
(* (never written, or cleared): getSum returns "0"; getBalance returns     *)
(* total "0", an empty byContext and entryCount 0; neither fails, and no   *)
(* step of either changes the store.                                       *)
(***************************************************************************)
C16_EmptyReads ==
    [][\A p \in Procs :
        /\ Begins(p, "getSum") =>
              /\ StoreUnchanged
              /\ PairAbsent(hashes, strings, op'[p].accountId, op'[p].currency) =>
                    pc'[p] = "done" /\ ret'[p] = RetSum(ZeroString)
        /\ Begins(p, "getBalance") => StoreUnchanged
        /\ pc[p] = "getBalance_hLen" /\ pc'[p] # pc[p] => StoreUnchanged
        /\ pc[p] = "getBalance_hGetAll" /\ pc'[p] # pc[p] =>
              /\ StoreUnchanged
              /\ PairAbsent(hashes, strings, op[p].accountId, op[p].currency) =>
                    pc'[p] = "done" /\ ret'[p] = EmptyBalance]_vars

\* getBalance has returned the empty balance for a pair none of whose keys exists
C16_Witness ==
    \E p \in Procs :
        /\ pc[p] = "done" /\ op[p].name = "getBalance" /\ ret[p] = EmptyBalance
        /\ PairAbsent(hashes, strings, op[p].accountId, op[p].currency)

(***************************************************************************)
(* C17.  Calls made one at a time.  The entry on record for an id is the   *)
(* one whose serialization the entries hash holds under the id.  A         *)
(* successful addEntry puts the entry it was given on record; what is on   *)
(* record for an id changes only when an addEntry of that id writes, a     *)
(* removeEntry of that id removes (nothing is then on record), or the      *)
(* ledger is cleared; and getEntry returns the entry on record, or null,   *)
(* not an error, when nothing is.                                          *)
(***************************************************************************)
AllEntries == UNION {Entries(c) : c \in Currencies}

OnRecord(hs, a, c, i) ==
    LET raw == HGet(hs, getLedgerKey(a, c), i)
    IN  IF IsNull(raw) THEN Null
        ELSE Some(CHOOSE e \in AllEntries : JSONstringify(e) = Get1(raw))

C17_GetEntryFidelity ==
    [][/\ \A a \in Accounts, c \in Currencies, i \in Ids :
          OnRecord(hashes', a, c, i) # OnRecord(hashes, a, c, i) =>
            \E p \in Procs :
                \/ pc[p] = "addEntry_exec" /\ pc'[p] = "done" /\ op[p].entry.id = i
                \/ pc[p] = "removeEntry_exec" /\ pc'[p] = "done" /\ op[p].entryId = i
                \/ Begins(p, "clearLedger")
       /\ \A p \in Procs :
        /\ Begins(p, "getEntry") =>
              /\ pc'[p] = "done"
              /\ ret'[p] = RetEntry(OnRecord(hashes, op'[p].accountId,
                                             op'[p].currency, op'[p].entryId))
              /\ StoreUnchanged
        /\ pc[p] = "addEntry_exec" /\ pc'[p] = "done" =>
              /\ ret'[p] = RetVoid
              /\ OnRecord(hashes', op[p].accountId, op[p].currency, op[p].entry.id)
                    = Some(op[p].entry)
        /\ pc[p] = "removeEntry_exec" /\ pc'[p] = "done" =>
              OnRecord(hashes', op[p].accountId, op[p].currency, op[p].entryId) = Null]_vars

\* getEntry has returned an entry that is stored, as it was given
C17_Witness ==
    \E p \in Procs :
        /\ pc[p] = "done" /\ op[p].name = "getEntry" /\ ret[p].kind = "entry"
        /\ ret[p].val # Null
        /\ ret[p].val[1].id = op[p].entryId
        /\ ret[p].val = OnRecord(hashes, op[p].accountId, op[p].currency, op[p].entryId)

(***************************************************************************)
(* C18.  For all account and currency strings: a step of a call on one     *)
(* pair leaves the entries, the total and the context sums of every other  *)
(* pair as they were.                                                      *)
(***************************************************************************)
PairView(hs, ss, a, c) ==
    [entries |-> HGetAll(hs, getLedgerKey(a, c)),
     total |-> StrGet(ss, getTotalKey(a, c)),
     byContext |-> HGetAll(hs, getContextKey(a, c))]

\* caller p takes this step
Acts(p) == calls'[p] # calls[p] \/ pc'[p] # pc[p]

C18_PairsIndependent ==
    [][\A p \in Procs :
        Acts(p) =>
            \A a \in PairAccounts, c \in PairCurrencies :
                <<a, c>> # <<op'[p].accountId, op'[p].currency>> =>
                    PairView(hashes', strings', a, c) = PairView(hashes, strings, a, c)]_vars

(***************************************************************************)
(* C19.  With prefix P, a call on account A and currency C changes no key  *)
(* but P:A:C, P:A:C:total and P:A:C:ctx; addEntry writes the entry under   *)
(* P:A:C and leaves a total under P:A:C:total and a context sum under      *)
(* P:A:C:ctx; clearLedger leaves none of the three; getSum returns what    *)
(* P:A:C:total holds and getEntry what P:A:C holds under the id; and a     *)
(* Ledger built without a prefix has P = "ledger".                         *)
(***************************************************************************)
Layout(P, a, c) ==
    [entries |-> P \o a \o c,
     total |-> P \o a \o c \o <<"total">>,
     ctx |-> P \o a \o c \o <<"ctx">>]

C19_KeyDerivation ==
    [][/\ LedgerConstructor([maxEntriesPerKey |-> Null, keyPrefix |-> Null]).keyPrefix
            = <<"ledger">>
       /\ \A p \in Procs :
            Acts(p) =>
              LET o == op'[p]
                  K == Layout(config.keyPrefix, o.accountId, o.currency)
              IN  /\ \A k \in DOMAIN hashes \cup DOMAIN hashes' :
                        HGetAll(hashes', k) # HGetAll(hashes, k) => k \in {K.entries, K.ctx}
                  /\ \A k \in DOMAIN strings \cup DOMAIN strings' :
                        StrGet(strings', k) # StrGet(strings, k) => k = K.total
                  /\ pc[p] = "addEntry_exec" =>
                        /\ HGet(hashes', K.entries, o.entry.id) = Some(JSONstringify(o.entry))
                        /\ K.total \in DOMAIN strings'
                        /\ HExists(hashes', K.ctx, o.entry.context)
                  /\ Begins(p, "clearLedger") =>
                        /\ {K.entries, K.ctx} \cap DOMAIN hashes' = {}
                        /\ K.total \notin DOMAIN strings'
                  /\ Begins(p, "getSum") /\ K.total \in DOMAIN strings =>
                        ret'[p] = RetSum(strings[K.total])
                  /\ Begins(p, "getEntry") /\ HExists(hashes, K.entries, o.entryId) =>
                        /\ ret'[p].kind = "entry"
                        /\ JSONstringify(ret'[p].val[1]) = hashes[K.entries][o.entryId]]_vars

\* a Ledger built without a prefix has added an entry, and the store holds
\* the three keys of the pair and no other
C19_Witness ==
    /\ config.keyPrefix = <<"ledger">>
    /\ \E p \in Procs : pc[p] = "done" /\ op[p].name = "addEntry" /\ ret[p] = RetVoid
    /\ DOMAIN hashes = {<<"ledger", "u1", "usd">>, <<"ledger", "u1", "usd", "ctx">>}
    /\ DOMAIN strings = {<<"ledger", "u1", "usd", "total">>}

(***************************************************************************)
(* C20.  getEntriesPaginated over a page that holds a record which does    *)
(* not parse returns a page all the same: the scan's cursor as nextCursor, *)
(* and the page's well-formed entries.                                     *)
(***************************************************************************)
C20_BadRecordSkipped ==
    [][\A p \in Procs :
        Begins(p, "getEntriesPaginated") =>
            LET o == op'[p]
                scan == HScan(hashes, getLedgerKey(o.accountId, o.currency),
                              OrDefault(o.cursor, DefaultCursor), OrDefault(o.count, DefaultCount))
                good == {i \in DOMAIN scan.entries : ~JSONparseThrows(scan.entries[i].value)}
            IN  /\ ret'[p].kind = "page"
                /\ ret'[p].nextCursor = scan.cursor
                /\ Yielded(ret'[p].entries) = {JSONparse(scan.entries[i].value) : i \in good}]_vars

(***************************************************************************)
(* C21.  A store command of addEntry or removeEntry that fails ends the    *)
(* call with the store's error; a call issues its commands in order, each  *)
(* at most once, and at most one grouped write; and a failure of a         *)
(* pre-check read (hExists, hLen, hGet) leaves the store as it was.        *)
(***************************************************************************)
\* the place of a command in its call
Rank(l) ==
    IF l \in {"idle", "done"} THEN 0
    ELSE IF l \in {"addEntry_hLen", "removeEntry_exec", "getBalance_hLen"} THEN 1
    ELSE 2

C21_FailureSurfaced ==
    [][\A p \in Procs :
        /\ PreCheckFails(p) \/ WriteFails(p) =>
              pc'[p] = "done" /\ ret'[p] = RetError("StoreUnavailable")
        /\ PreCheckFails(p) => StoreUnchanged /\ nexec'[p] = 0
        /\ Acts(p) /\ pc'[p] # "done" => Rank(pc'[p]) = Rank(pc[p]) + 1
        /\ nexec'[p] <= 1]_vars

\* a pre-check of an addEntry has failed on a ledger that holds an entry
C21_Witness ==
    \E p \in Procs :
        /\ pc[p] = "done" /\ op[p].name = "addEntry"
        /\ ret[p] = RetError("StoreUnavailable")
        /\ nexec[p] = 0
        /\ PresentEntries(hashes, op[p].accountId, op[p].currency) # {}

(***************************************************************************)
(* C22.  Calls made one at a time on the pair (u1, usd).  After the adds   *)
(* of {1, deposit, "100.00"} and {2, withdrawal, "-30.00"} and nothing     *)
(* else, getBalance returns total "70.00", byContext {deposit: "100.00",   *)
(* withdrawal: "-30.00"} and entryCount 2; after the removal of entry 1,   *)
(* total "-30.00", byContext {deposit: "0.00", withdrawal: "-30.00"} and   *)
(* entryCount 1.                                                           *)
(***************************************************************************)
T1 == LedgerEntry(1, "deposit", <<"usd">>, DecStr(10000, 2))
T2 == LedgerEntry(2, "withdrawal", <<"usd">>, DecStr(-3000, 2))

C22_ScenarioStrings ==
    \A p \in Procs :
        (pc[p] = "done" /\ op[p].name = "getBalance" /\ op[p].accountId = <<"u1">>) =>
            LET stored == PresentEntries(hashes, op[p].accountId, op[p].currency)
            IN  /\ (calls[p] = 3 /\ stored = {T1, T2}) =>
                      ret[p] = RetBalance(DecStr(7000, 2),
                                          [x \in {"deposit", "withdrawal"} |->
                                              IF x = "deposit" THEN DecStr(10000, 2)
                                                               ELSE DecStr(-3000, 2)],
                                          2)
                /\ (calls[p] = 4 /\ stored = {T2}
                        /\ HExists(hashes, getContextKey(op[p].accountId, op[p].currency),
                                   "deposit")) =>
                      ret[p] = RetBalance(DecStr(-3000, 2),
                                          [x \in {"deposit", "withdrawal"} |->
                                              IF x = "deposit" THEN DecStr(0, 2)
                                                               ELSE DecStr(-3000, 2)],
                                          1)

(***************************************************************************)
(* C23.  A Ledger built on an ioredis-shaped client behaves as one built   *)
(* on a node-redis-shaped client: on every store content the two adapters  *)
(* give the same hExists reply (1 is true, 0 is false) and the same scan   *)
(* page (the flat list paired up in order); and whichever the client, an   *)
(* addEntry is refused as a duplicate exactly when the store holds the id, *)
(* getEntriesPaginated returns the store's scan page and cursor, and       *)
(* clearLedger leaves none of the pair's three keys.                       *)
(***************************************************************************)
C23_AdaptersAgree ==
    [][/\ \A a \in Accounts, c \in Currencies :
            /\ \A i \in Ids :
                  /\ adapter_hExists("ioredis", hashes, getLedgerKey(a, c), i)
                        = adapter_hExists("node-redis", hashes, getLedgerKey(a, c), i)
                  /\ adapter_hExists("ioredis", hashes, getLedgerKey(a, c), i)
                        <=> HExists(hashes, getLedgerKey(a, c), i)
            /\ \A cursor \in Cursors, count \in 1..MaxCount :
                  adapter_hScan("ioredis", hashes, getLedgerKey(a, c), cursor, count)
                    = adapter_hScan("node-redis", hashes, getLedgerKey(a, c), cursor, count)
       /\ \A p \in Procs :
            /\ Begins(p, "addEntry") =>
                  (ret'[p] = RetError("DuplicateEntry")
                     <=> HExists(hashes, KeyOf(op'[p]), op'[p].entry.id))
            /\ Begins(p, "getEntriesPaginated") =>
                  LET o == op'[p]
                      scan == HScan(hashes, KeyOf(o), OrDefault(o.cursor, DefaultCursor),
                                    OrDefault(o.count, DefaultCount))
                  IN  /\ ret'[p].kind = "page"
                      /\ ret'[p].nextCursor = scan.cursor
                      /\ Len(ret'[p].entries) = Len(scan.entries)
                      /\ \A i \in DOMAIN scan.entries :
                            /\ ret'[p].entries[i].id = scan.entries[i].field
                            /\ JSONstringify(ret'[p].entries[i]) = scan.entries[i].value
            /\ Begins(p, "clearLedger") =>
                  PairAbsent(hashes', strings', op'[p].accountId, op'[p].currency)]_vars

\* a Ledger on an ioredis client has refused a duplicate: hexists replied 1
C23_Witness ==
    /\ adapter = "ioredis"
    /\ \E p \in Procs :
          /\ pc[p] = "done" /\ op[p].name = "addEntry"
          /\ ret[p] = RetError("DuplicateEntry")
          /\ ioredis_hexists(hashes, KeyOf(op[p]), op[p].entry.id) = 1

(***************************************************************************)
(* C24.  The constructor gives each of maxEntriesPerKey and keyPrefix the  *)
(* value supplied, or 1000000 and "ledger" when none is, whatever is       *)
(* supplied for the other; the configuration never changes; getConfig      *)
(* returns it; addEntry refuses at the limit exactly when the count has    *)
(* reached the configured limit, and writes under the configured prefix.   *)
(***************************************************************************)
C24_Configuration ==
    [][/\ \A cfg \in FullConfigInputs :
            LedgerConstructor(cfg) =
                [maxEntriesPerKey |-> IF cfg.maxEntriesPerKey = Null
                                      THEN 1000000 ELSE cfg.maxEntriesPerKey[1],
                 keyPrefix |-> IF cfg.keyPrefix = Null
                               THEN <<"ledger">> ELSE cfg.keyPrefix[1]]
       /\ config' = config
       /\ \A p \in Procs :
            /\ Begins(p, "getConfig") => pc'[p] = "done" /\ ret'[p] = RetConfig(config)
            /\ pc[p] = "addEntry_hLen" /\ Acts(p) =>
                  (ret'[p] = RetError("LimitExceeded")
                     <=> HLen(hashes, config.keyPrefix \o op[p].accountId \o op[p].currency)
                            >= config.maxEntriesPerKey)
            /\ pc[p] = "addEntry_exec" /\ Acts(p) =>
                  config.keyPrefix \o op[p].accountId \o op[p].currency \in DOMAIN hashes']_vars

\* a Ledger built with a limit and no prefix has refused an add at its limit
C24_Witness ==
    /\ config = [maxEntriesPerKey |-> TestLimit, keyPrefix |-> <<"ledger">>]
    /\ \E p \in Procs :
          /\ pc[p] = "done" /\ op[p].name = "addEntry"
          /\ ret[p] = RetError("LimitExceeded")

(***************************************************************************)
(* C25.  Callers adding entries of pairwise distinct ids concurrently: in  *)
(* every state the total is the sum of the amounts of the stored entries,  *)
(* and every context sum the sum of the amounts of the stored entries of   *)
(* that context.                                                           *)
(***************************************************************************)
C25_SumsInEveryState ==
    \A a \in Accounts, c \in Currencies :
        LET stored == PresentEntries(hashes, a, c)
        IN  /\ StoredTotal(a, c) = SumAmounts(stored)
            /\ \A x \in Contexts : StoredContextSum(a, c, x) = SumAmounts(WithContext(stored, x))

\* one caller's entry is stored with its sums while another caller's add is
\* between its pre-checks and its write
C25_Witness ==
    \E p, q \in Procs :
        /\ Succeeded(p) /\ pc[q] = "addEntry_exec"
        /\ StoredTotal(op[p].accountId, op[p].currency) # 0
        /\ PresentEntries(hashes, op[p].accountId, op[p].currency) = {op[p].entry}

(***************************************************************************)
(* C26.  Callers running concurrently: a call issues at most one grouped   *)
(* write, and none before its pre-checks are done; a call that ended with  *)
(* DuplicateEntry, LimitExceeded or false has issued none; the store       *)
(* changes only in the step of a grouped write or in the one step of a     *)
(* clearLedger, which is its delete.                                       *)
(***************************************************************************)
PreWrite == {"addEntry_hLen", "addEntry_exec", "removeEntry_exec"}
WriteSteps == {"addEntry_exec", "removeEntry_exec"}

C26_OneGroupedWrite ==
    [][\A p \in Procs :
        /\ nexec'[p] <= 1
        /\ pc'[p] \in PreWrite => nexec'[p] = 0
        /\ (pc'[p] = "done" /\ ret'[p] \in {RetError("DuplicateEntry"),
                                             RetError("LimitExceeded"),
                                             RetBool(FALSE)}) => nexec'[p] = 0
        /\ nexec'[p] > nexec[p] => pc[p] \in WriteSteps /\ pc'[p] = "done"
        /\ (Acts(p) /\ ~StoreUnchanged) =>
              \/ pc[p] \in WriteSteps /\ nexec'[p] = 1
              \/ Begins(p, "clearLedger") /\ pc'[p] = "done" /\ nexec'[p] = 0]_vars

\* one call has ended false without a write, another has written once
C26_Witness ==
    \E p, q \in Procs :
        /\ pc[p] = "done" /\ op[p].name = "removeEntry" /\ ret[p] = RetBool(FALSE)
        /\ nexec[p] = 0
        /\ Succeeded(q) /\ op[q].name = "addEntry" /\ nexec[q] = 1

(***************************************************************************)
(* C27.  Callers running concurrently: getBalance returns what its three   *)
(* reads replied, each read replying the store's content at its own step;  *)
(* when the total and the count it read are still the store's at its last  *)
(* read, what it returns is the current state of the pair; otherwise the   *)
(* three may belong to no single state (see the witness).                  *)
(***************************************************************************)
RECURSIVE SumValues(_)
SumValues(f) ==
    IF DOMAIN f = {} THEN 0
    ELSE LET x == CHOOSE y \in DOMAIN f : TRUE
         IN  DecimalValue(f[x]) + SumValues(Restrict(f, DOMAIN f \ {x}))

C27_BalanceReads ==
    [][\A p \in Procs :
        LET a == op'[p].accountId
            c == op'[p].currency
        IN  /\ Begins(p, "getBalance") =>
                  loc'[p].total = StrGet(strings, getTotalKey(a, c))
            /\ (pc[p] = "getBalance_hLen" /\ Acts(p)) =>
                  /\ loc'[p].total = loc[p].total
                  /\ loc'[p].entryCount = HLen(hashes, getLedgerKey(a, c))
            /\ (pc[p] = "getBalance_hGetAll" /\ Acts(p)) =>
                  /\ pc'[p] = "done" /\ ret'[p].kind = "balance"
                  /\ ret'[p].total = (IF loc[p].total = Null THEN ZeroString
                                       ELSE loc[p].total[1])
                  /\ ret'[p].entryCount = loc[p].entryCount
                  /\ ret'[p].byContext = HGetAll(hashes, getContextKey(a, c))
                  /\ (/\ loc[p].total = StrGet(strings, getTotalKey(a, c))
                      /\ loc[p].entryCount = HLen(hashes, getLedgerKey(a, c))) =>
                        ret'[p] = RetBalance(
                            IF getTotalKey(a, c) \in DOMAIN strings
                            THEN strings[getTotalKey(a, c)] ELSE ZeroString,
                            HGetAll(hashes, getContextKey(a, c)),
                            Cardinality(PresentEntries(hashes, a, c)))]_vars

\* getBalance has returned a total that is not the sum of the context sums
\* it returned: the total was read before, the context sums after, a
\* concurrent write
C27_Witness ==
    \E p \in Procs :
        /\ pc[p] = "done" /\ op[p].name = "getBalance" /\ ret[p].kind = "balance"
        /\ DecimalValue(ret[p].total) # SumValues(ret[p].byContext)

(***************************************************************************)
(* C28.  Calls made one at a time: no step but clearLedger's removes a     *)
(* field of the context sums; the grouped write of removeEntry leaves the  *)
(* removed entry's context in place, with the value zero when no stored    *)
(* entry has that context any more.                                        *)
(***************************************************************************)
ContextFields(hs, a, c) == DOMAIN HGetAll(hs, getContextKey(a, c))

C28_ZeroContextLingers ==
    [][\A p \in Procs :
        /\ (Acts(p) /\ ~Begins(p, "clearLedger")) =>
              \A a \in Accounts, c \in Currencies :
                  ContextFields(hashes, a, c) \subseteq ContextFields(hashes', a, c)
        /\ (pc[p] = "removeEntry_exec" /\ Acts(p)) =>
              LET a == op[p].accountId
                  c == op[p].currency
                  x == OnRecord(hashes, a, c, op[p].entryId)[1].context
              IN  /\ x \in ContextFields(hashes', a, c)
                  /\ WithContext(PresentEntries(hashes', a, c), x) = {} =>
                        DecimalValue(hashes'[getContextKey(a, c)][x]) = 0]_vars

\* the only entry has been removed and its context is still there, at zero
C28_Witness ==
    \E p \in Procs :
        /\ pc[p] = "done" /\ op[p].name = "removeEntry" /\ ret[p] = RetBool(TRUE)
        /\ PresentEntries(hashes, op[p].accountId, op[p].currency) = {}
        /\ \E x \in ContextFields(hashes, op[p].accountId, op[p].currency) :
              DecimalValue(hashes[getContextKey(op[p].accountId, op[p].currency)][x]) = 0

(***************************************************************************)
(* C29.  No step of getEntry, getSum, getBalance or getEntriesPaginated    *)
(* changes the store, whether the call returns a value, returns absent or  *)
(* fails on a record that does not parse.                                  *)
(***************************************************************************)
ReadNames == {"getEntry", "getSum", "getBalance", "getEntriesPaginated"}

C29_ReadsChangeNothing ==
    [][\A p \in Procs :
        (Acts(p) /\ op'[p].name \in ReadNames) => StoreUnchanged]_vars

\* a read has failed on a record that does not parse, next to stored sums
C29_Witness ==
    \E p \in Procs :
        /\ pc[p] = "done" /\ op[p].name \in ReadNames
        /\ ret[p] = RetError("SyntaxError")
        /\ strings # << >>

(***************************************************************************)
(* C30.  Calls made one at a time: an addEntry that follows a removeEntry  *)
(* of the same id that returned true passes the duplicate check and finds  *)
(* the count below the limit, so it goes on to its write; after the write  *)
(* of an addEntry, getEntry of the id returns the entry just given, and    *)
(* the total and every context sum are the sums over the stored entries    *)
(* alone.                                                                  *)
(***************************************************************************)
SumsOf(hs, ss, a, c) ==
    LET stored == PresentEntries(hs, a, c)
        t == StrGet(ss, getTotalKey(a, c))
        h == HGetAll(hs, getContextKey(a, c))
    IN  /\ (IF IsNull(t) THEN 0 ELSE DecimalValue(Get1(t))) = SumAmounts(stored)
        /\ \A x \in Contexts :
              (IF x \in DOMAIN h THEN DecimalValue(h[x]) ELSE 0)
                = SumAmounts(WithContext(stored, x))

C30_DeleteThenReinsert ==
    [][\A p \in Procs :
        /\ (/\ Begins(p, "addEntry")
            /\ op[p].name = "removeEntry" /\ ret[p] = RetBool(TRUE)
            /\ op[p].entryId = op'[p].entry.id
            /\ KeyOf(op[p]) = KeyOf(op'[p])) =>
              /\ pc'[p] = "addEntry_hLen"
              /\ HLen(hashes, KeyOf(op'[p])) < config.maxEntriesPerKey
        /\ (/\ pc[p] = "addEntry_hLen" /\ Acts(p)
            /\ HLen(hashes, KeyOf(op[p])) < config.maxEntriesPerKey) =>
              pc'[p] = "addEntry_exec"
        /\ (pc[p] = "addEntry_exec" /\ Acts(p)) =>
              /\ pc'[p] = "done" /\ ret'[p] = RetVoid
              /\ getEntryReply(hashes', op[p].accountId, op[p].currency, op[p].entry.id)
                    = RetEntry(Some(op[p].entry))
              /\ SumsOf(hashes', strings', op[p].accountId, op[p].currency)]_vars

\* an entry has been added, removed and added again with another context:
\* the new one is stored, the old context lingers at zero
C30_Witness ==
    \E p \in Procs :
        /\ calls[p] = 3 /\ Succeeded(p) /\ op[p].name = "addEntry"
        /\ PresentEntries(hashes, op[p].accountId, op[p].currency) = {op[p].entry}
        /\ \E x \in ContextFields(hashes, op[p].accountId, op[p].currency) :
              /\ x # op[p].entry.context
              /\ DecimalValue(hashes[getContextKey(op[p].accountId, op[p].currency)][x]) = 0

(***************************************************************************)
(* C31.  An addEntry whose id is stored ends with DuplicateEntry at its    *)
(* first command, without reading the count and without a write, also when *)
(* the pair holds maxEntriesPerKey entries.                                *)
(***************************************************************************)
C31_DuplicateBeforeLimit ==
    [][\A p \in Procs :
        (Begins(p, "addEntry") /\ HExists(hashes, KeyOf(op'[p]), op'[p].entry.id)) =>
            /\ pc'[p] = "done"
            /\ ret'[p] = RetError("DuplicateEntry")
            /\ "count" \notin DOMAIN loc'[p]
            /\ StoreUnchanged]_vars

\* a stored id has been refused as a duplicate in a pair that is full
C31_Witness ==
    \E p \in Procs :
        /\ Failed(p, "DuplicateEntry")
        /\ HExists(hashes, KeyOf(op[p]), op[p].entry.id)
        /\ HLen(hashes, KeyOf(op[p])) >= config.maxEntriesPerKey
        /\ "count" \notin DOMAIN loc[p]

IdsPresent(hs, a, c) == DOMAIN HGetAll(hs, getLedgerKey(a, c))

C36_CountIsAddsMinusRemoves ==
    [][\A p \in Procs :
        LET a == op'[p].accountId
            c == op'[p].currency
            n == Cardinality(IdsPresent(hashes, a, c))
            n2 == Cardinality(IdsPresent(hashes', a, c))
        IN  Acts(p) =>
              /\ (pc'[p] = "done" /\ op'[p].name = "getBalance") =>
                    ret'[p].entryCount = n2
              /\ CASE pc[p] = "addEntry_exec" -> ret'[p] = RetVoid /\ n2 = n + 1
                   [] pc[p] = "removeEntry_exec" -> ret'[p] = RetBool(TRUE) /\ n2 = n - 1
                   [] Begins(p, "clearLedger") -> n2 = 0
                   [] OTHER -> n2 = n /\ ret'[p] \notin {RetVoid, RetBool(TRUE)}]_vars

\* getBalance has counted no entry after an add and a removal of it (the
\* context of the removed entry lingers)
C36_Witness ==
    \E p \in Procs :
        /\ calls[p] = 3 /\ pc[p] = "done" /\ op[p].name = "getBalance"
        /\ ret[p].entryCount = 0
        /\ IdsPresent(hashes, op[p].accountId, op[p].currency) = {}
        /\ ContextFields(hashes, op[p].accountId, op[p].currency) # {}

(***************************************************************************)
(* C32.  A clearLedger running concurrently with addEntry and removeEntry  *)
(* calls on its pair: once all the calls have completed, the total is the  *)
(* sum of the amounts of the stored entries and every context sum the sum  *)
(* of the amounts of the stored entries of that context.                   *)
(***************************************************************************)
C32_ClearRaceSums ==
    (/\ Quiescent
     /\ \E q \in Procs : op[q].name = "clearLedger"
     /\ \A p \in Procs : op[p].name \in {"clearLedger", "addEntry", "removeEntry"}) =>
        \A a \in Accounts, c \in Currencies :
            SumsOf(hashes, strings, a, c)

(***************************************************************************)
(* C34.  Calls made one at a time, the store noted when the id was absent: *)
(* the removeEntry of the id that follows a successful addEntry of it      *)
(* finds the entry and returns true, and its write leaves the entries map  *)
(* (so the count) and the total as they were noted, and the sum of the     *)
(* entry's context at the value noted, zero if the context was absent.     *)
(***************************************************************************)
ContextValue(hs, a, c, x) ==
    IF x \in ContextFields(hs, a, c)
    THEN DecimalValue(hs[getContextKey(a, c)][x]) ELSE 0

C34_AddRemoveRoundTrip ==
    [][\A p \in Procs :
        LET a == op'[p].accountId
            c == op'[p].currency
            i == op'[p].entryId
        IN  /\ (/\ Begins(p, "removeEntry")
                /\ op[p].name = "addEntry" /\ ret[p] = RetVoid
                /\ op[p].entry.id = i /\ KeyOf(op[p]) = KeyOf(op'[p])) =>
                  pc'[p] = "removeEntry_exec"
            /\ (/\ pc[p] = "removeEntry_exec" /\ Acts(p)
                /\ calls[p] = before.calls + 2
                /\ i \notin IdsPresent(before.hashes, a, c)) =>
                  /\ pc'[p] = "done" /\ ret'[p] = RetBool(TRUE)
                  /\ HGetAll(hashes', getLedgerKey(a, c))
                        = HGetAll(before.hashes, getLedgerKey(a, c))
                  /\ HLen(hashes', getLedgerKey(a, c))
                        = HLen(before.hashes, getLedgerKey(a, c))
                  /\ getSumReply(strings', a, c) = getSumReply(before.strings, a, c)
                  /\ LET x == OnRecord(hashes, a, c, i)[1].context
                     IN  ContextValue(hashes', a, c, x)
                           = ContextValue(before.hashes, a, c, x)]_vars

\* next to an entry that stays, an entry has been added and removed again
\* since the store was noted
C34_Witness ==
    \E p \in Procs :
        /\ pc[p] = "done" /\ op[p].name = "removeEntry" /\ ret[p] = RetBool(TRUE)
        /\ calls[p] = before.calls + 2
        /\ op[p].entryId \notin IdsPresent(before.hashes, op[p].accountId, op[p].currency)
        /\ IdsPresent(before.hashes, op[p].accountId, op[p].currency) # {}
        /\ getSumReply(strings, op[p].accountId, op[p].currency).v # 0

(***************************************************************************)
(* C33.  Calls made one at a time and applied to the scan-based ledger as  *)
(* well, entries added under ids not present: getSum returns the same      *)
(* string from both, getBalance the same total and entryCount and the same *)
(* sum for every context that has a stored entry, removeEntry the same     *)
(* boolean.  (As stated, for every such sequence; as amended, for those in *)
(* which the Ledger has refused no addEntry with LimitExceeded.)           *)
(***************************************************************************)
Agree(o, r, l) ==
    CASE o.name = "getSum" -> r = l
      [] o.name = "removeEntry" -> r = l
      [] o.name = "getBalance" ->
            /\ l.kind = "balance"
            /\ r.total = l.total
            /\ r.entryCount = l.entryCount
            /\ \A x \in DOMAIN l.byContext :
                  x \in DOMAIN r.byContext /\ r.byContext[x] = l.byContext[x]
            /\ \A x \in Contexts :
                  WithContext(PresentEntries(hashes, o.accountId, o.currency), x) # {} =>
                      x \in DOMAIN l.byContext
      [] OTHER -> TRUE

Mirrored(p) == pc[p] = "done" /\ calls[p] > 0 /\ applied = calls[p]

Holders == {k \in DOMAIN operations : operations[k] \in {"acquired", "reading"}}

C37_SemaphorePermits ==
    ~IsNull(floodConfig) =>
        /\ Cardinality(Holders) <= Get1(floodConfig).concurrency
        /\ permits >= 0
        /\ permits + Cardinality(Holders) = Get1(floodConfig).concurrency
        /\ \A n \in DOMAIN waiting : operations[waiting[n]] = "waiting"

\* every permit is held, one of them handed over by a release, and an
\* operation still waits
C37_Witness ==
    /\ ~IsNull(floodConfig)
    /\ permits = 0 /\ waiting # << >>
    /\ Cardinality(Holders) = Get1(floodConfig).concurrency
    /\ \E k \in DOMAIN operations : operations[k] = "settled"

(***************************************************************************)
(* C38.  When runFlood returns, successCount + failureCount is targetOps.  *)
(***************************************************************************)
C38_EveryOperationCountedOnce ==
    ~IsNull(floodResult) =>
        Get1(floodResult).successCount + Get1(floodResult).failureCount
            = Get1(floodResult).totalAttempted

====
